---- MODULE Spec2Model ----
(***************************************************************************)
(* Expression compilation (velox/expression/ExprCompiler.cpp) and the      *)
(* per-row cast kernels (velox/expression/CastExpr-inl.h).                 *)
(*                                                                         *)
(* Compiled expressions live in a heap of nodes; a shared_ptr<Expr> is the *)
(* index of its node in the heap and nullptr is 0, so pointer identity is  *)
(* index equality.  Typed-expression IR nodes are immutable values; the    *)
(* dedup map compares them with hash() and operator==, that is,            *)
(* structurally.                                                           *)
(***************************************************************************)
EXTENDS Integers, Sequences, FiniteSets, TLC

\* Number of source expressions handed to one compileExpressions call.
MaxSources == 2

-----------------------------------------------------------------------------
(* Types.  ROW_a and ROW_b are two row types that differ only in the name  *)
(* of their field: equivalent() ignores field names, operator== does not.  *)

TypeKindOf(t) == IF t \in {"ROW_a", "ROW_b"} THEN "ROW" ELSE t

equivalent(t1, t2) == TypeKindOf(t1) = TypeKindOf(t2)

typeEquals(t1, t2) == t1 = t2

-----------------------------------------------------------------------------
(* Typed-expression IR.  Every node has the same record shape.  A Lambda   *)
(* keeps its body apart from inputs(), which is empty for it.              *)

MkIR(k, t, n, ins, try, ps, b) ==
    [kind |-> k, type |-> t, name |-> n, inputs |-> ins,
     isTryCast |-> try, params |-> ps, body |-> b]

InputRef == MkIR("Input", "ROW_a", "", <<>>, FALSE, <<>>, <<>>)
Col(t, n) == MkIR("FieldAccess", t, n, <<InputRef>>, FALSE, <<>>, <<>>)
Var(t, n) == MkIR("FieldAccess", t, n, <<>>, FALSE, <<>>, <<>>)
Sub(t, n, child) == MkIR("FieldAccess", t, n, <<child>>, FALSE, <<>>, <<>>)
Const(t, v) == MkIR("Constant", t, v, <<>>, FALSE, <<>>, <<>>)
Call(t, n, ins) == MkIR("Call", t, n, ins, FALSE, <<>>, <<>>)
Cast(t, child, try) == MkIR("Cast", t, "", <<child>>, try, <<>>, <<>>)
Deref(t, idx, child) == MkIR("Dereference", t, idx, <<child>>, FALSE, <<>>, <<>>)
RowCtor(t, ins) == MkIR("Concat", t, "", ins, FALSE, <<>>, <<>>)
Lambda(ps, b) == MkIR("Lambda", "FUNCTION", "", <<>>, FALSE, ps, <<b>>)

\* No expression: a rewrite that does not apply returns nullptr.
NoIR == MkIR("null", "", "", <<>>, FALSE, <<>>, <<>>)

isInputColumn(access) ==
    access.inputs = <<>> \/ access.inputs[1].kind = "Input"

-----------------------------------------------------------------------------
(* Registries consumed by the compiler.                                    *)

Sig(args, variadic, ret) == [args |-> args, variadic |-> variadic, ret |-> ret]

\* A signature accepts the argument types: every declared argument matches,
\* and a variadic signature repeats its last argument type.
SigMatches(sig, types) ==
    IF sig.variadic
    THEN /\ Len(types) >= Len(sig.args)
         /\ \A i \in 1..Len(types) :
              types[i] = sig.args[IF i <= Len(sig.args) THEN i ELSE Len(sig.args)]
    ELSE types = sig.args

NoSig == Sig(<<>>, FALSE, "")

FirstMatch(sigs, types) ==
    IF \E i \in 1..Len(sigs) : SigMatches(sigs[i], types)
    THEN sigs[CHOOSE i \in 1..Len(sigs) :
                /\ SigMatches(sigs[i], types)
                /\ \A j \in 1..(i - 1) : ~SigMatches(sigs[j], types)]
    ELSE NoSig

\* Names registered as function-call special forms.
SpecialFormNames == {"and", "or", "cast", "try_cast", "row_constructor", "coalesce"}

\* Vector function registry: name -> signatures and metadata.
VectorFunctionMap ==
    [n \in {"and", "concat", "plus", "coalesce", "vs", "rand", "fail_sys", "ident"} |->
       CASE n = "and" ->
              [signatures |-> <<Sig(<<"BOOLEAN">>, TRUE, "BOOLEAN")>>,
               supportsFlattening |-> TRUE, deterministic |-> TRUE]
         [] n = "concat" ->
              [signatures |-> <<Sig(<<"ARRAY">>, TRUE, "ARRAY"),
                                Sig(<<"ARRAY", "BIGINT">>, FALSE, "ARRAY")>>,
               supportsFlattening |-> TRUE, deterministic |-> TRUE]
         [] n = "plus" ->
              [signatures |-> <<Sig(<<"BIGINT", "BIGINT">>, FALSE, "BIGINT")>>,
               supportsFlattening |-> FALSE, deterministic |-> TRUE]
         [] n = "coalesce" ->
              [signatures |-> <<Sig(<<"BIGINT">>, TRUE, "BIGINT")>>,
               supportsFlattening |-> FALSE, deterministic |-> TRUE]
         [] n = "vs" ->
              [signatures |-> <<Sig(<<"BIGINT">>, FALSE, "BIGINT")>>,
               supportsFlattening |-> FALSE, deterministic |-> TRUE]
         [] n = "rand" ->
              [signatures |-> <<Sig(<<"BIGINT">>, FALSE, "BIGINT")>>,
               supportsFlattening |-> FALSE, deterministic |-> FALSE]
         [] n = "fail_sys" ->
              [signatures |-> <<Sig(<<"BIGINT">>, FALSE, "BIGINT")>>,
               supportsFlattening |-> FALSE, deterministic |-> TRUE]
         [] n = "ident" ->
              [signatures |-> <<Sig(<<"BIGINT">>, FALSE, "BIGINT")>>,
               supportsFlattening |-> FALSE, deterministic |-> TRUE]]

\* Simple function registry: name -> signatures (each with its return type).
SimpleFunctionMap ==
    [n \in {"sf", "vs", "fail_user", "plus"} |->
       CASE n = "sf" ->
              [signatures |-> <<Sig(<<"BIGINT">>, FALSE, "BIGINT"),
                                Sig(<<"ROW_a">>, FALSE, "ROW_a")>>,
               deterministic |-> TRUE]
         [] n = "vs" ->
              [signatures |-> <<Sig(<<"BIGINT">>, FALSE, "BOOLEAN"),
                                Sig(<<"BOOLEAN">>, FALSE, "BOOLEAN")>>,
               deterministic |-> TRUE]
         [] n = "fail_user" ->
              [signatures |-> <<Sig(<<"BIGINT">>, FALSE, "BIGINT")>>,
               deterministic |-> TRUE]
         [] n = "plus" ->
              [signatures |-> <<Sig(<<"BOOLEAN", "BOOLEAN">>, FALSE, "BIGINT")>>,
               deterministic |-> TRUE]]

\* What evaluating a function on constant inputs does: it returns a value,
\* throws a VeloxUserError, or throws an error that is not a user error.
EvalThrows(name) ==
    CASE name = "fail_user" -> "user"
      [] name = "fail_sys" -> "system"
      [] OTHER -> "none"

-----------------------------------------------------------------------------
(* State.                                                                  *)

VARIABLES
    pc,                     \* position of the compileExpressions call
    sources,                \* the call's sources
    nextSource,             \* index of the next source the loop compiles
    exprs,                  \* the call's result so far
    enableConstantFolding,  \* the call's flag
    flatteningCandidates,   \* names collected before any source is compiled
    functionMap,            \* the vector function registry, as it is now
    lockedMap,              \* the registry as read under the lock, for the candidates
    heap,                   \* compiled nodes; a pointer is an index
    scopes,                 \* every Scope the call has created (1 = top level)
    toReset,                \* ExprSet's nodes registered with addToReset
    clears,                 \* number of ExprSet::clear() calls
    log,                    \* one entry per returned compileExpression call
    err,                    \* the exception that ended the call, if any
    earlier                 \* what the calls before this one returned

\* One applyCastPrimitives call.
VARIABLES
    castPc,                 \* position of the applyCastPrimitives call
    fromKind,               \* the kernel's FromKind
    toKind,                 \* the kernel's ToKind
    policy,                 \* hooks_->getPolicy()
    setNullInResultAtError, \* the hooks' flag: a try-cast
    captureErrorDetails,    \* the context's flag
    selectedRows,           \* the selected rows not processed yet
    inputVector,            \* the input vector's values that have been read
    resultVector,           \* the result vector
    contextErrors,          \* the context's error of each row
    escaped,                \* the exception that left the call, if any
    converterInput          \* what the converter or hook of each row was called with

\* What the decimal kernels add to a cast call.
VARIABLES
    kernel,                 \* the kernel the call runs
    truncate,               \* hooks_->truncate()
    fromScale,              \* the scale of a DECIMAL source type
    firstPass,              \* the outcome of an earlier cast of the same input
    stringBuffer            \* the result vector's string buffer and the views into it

compilerVars == <<pc, sources, nextSource, exprs, enableConstantFolding,
                  flatteningCandidates, functionMap, lockedMap, heap, scopes,
                  toReset, clears, log, err, earlier>>

castVars == <<castPc, fromKind, toKind, policy, setNullInResultAtError,
              captureErrorDetails, selectedRows, inputVector, resultVector,
              contextErrors, escaped, converterInput, kernel, truncate, fromScale,
              firstPass, stringBuffer>>

vars == <<compilerVars, castVars>>

-----------------------------------------------------------------------------
(* Compiled nodes.                                                         *)

Lit(v) == [op |-> v, args |-> <<>>]
NoValue == Lit("")

MkNode(k, n, t, ins, val, det, caps, b, sig) ==
    [kind |-> k, name |-> n, type |-> t, inputs |-> ins, value |-> val,
     deterministic |-> det, captures |-> caps, body |-> b, signature |-> sig,
     isMultiplyReferenced |-> FALSE, metaDataClears |-> 0]

ConstantExpr(t, val) ==
    MkNode("ConstantExpr", "literal", t, <<>>, val, TRUE, <<>>, 0, <<>>)
FieldReference(t, ins, field) ==
    MkNode("FieldReference", field, t, ins, NoValue, TRUE, <<>>, 0, <<>>)
SpecialFormExpr(n, t, ins) ==
    MkNode("SpecialForm", n, t, ins, NoValue, TRUE, <<>>, 0, <<>>)
GenericExpr(t, ins, det, n) ==
    MkNode("Expr", n, t, ins, NoValue, det, <<>>, 0, <<>>)
LambdaExpr(sig, caps, b) ==
    MkNode("LambdaExpr", "lambda", "FUNCTION", <<>>, NoValue, TRUE, caps, b, sig)

\* Expr::isConstant(): the node is a ConstantExpr.
isConstant(node) == node.kind = "ConstantExpr"

\* Expr::isConstantExpr(): a deterministic expression all of whose inputs are
\* constants.  A column reference and a lambda are never constant.
isConstantExpr(node, h) ==
    /\ node.kind \in {"SpecialForm", "Expr", "FieldReference"}
    /\ node.kind = "FieldReference" => node.inputs # <<>>
    /\ node.deterministic
    /\ \A i \in 1..Len(node.inputs) : isConstant(h[node.inputs[i]])

\* The value a one-row evaluation of the node yields.
EvalValue(node, h) ==
    [op |-> node.name,
     args |-> [i \in 1..Len(node.inputs) |-> h[node.inputs[i]].value]]

-----------------------------------------------------------------------------
(* Errors.                                                                 *)

\* expr, scope and inputs are history: the compileRewrittenExpression frame the
\* exception was thrown in and the inputs it had compiled.
MkErr(k, w, n, sigs) ==
    [kind |-> k, what |-> w, name |-> n, signatures |-> sigs,
     expr |-> NoIR, scope |-> 0, inputs |-> <<>>]
NoErr == MkErr("none", "", "", <<>>)
UserError(w, n, sigs) == MkErr("user", w, n, sigs)
RuntimeError(w) == MkErr("runtime", w, "", <<>>)
SystemError(w) == MkErr("system", w, "", <<>>)

Ok(st) == st.err.kind = "none"
Fail(st, e) == [st EXCEPT !.err = e, !.ret = 0]
ThrownIn(st, expr, scope, inputs) ==
    IF st.err.scope # 0 THEN st
    ELSE [st EXCEPT !.err.expr = expr, !.err.scope = scope, !.err.inputs = inputs]

\* A new node in the heap; ret is the pointer to it and how tells which
\* construction made it.
Alloc(st, node, how) ==
    [st EXCEPT !.heap = Append(@, node), !.ret = Len(st.heap) + 1, !.how = how]

-----------------------------------------------------------------------------
(* Scope.                                                                  *)

EmptyMap == [e \in {} |-> 0]

MapPut(m, key, v) == [e \in DOMAIN m \cup {key} |-> IF e = key THEN v ELSE m[e]]

\* lambda and closed are history: the Lambda the Scope was opened for and
\* whether compileLambda has returned.
Scope(locals, parent, lam) ==
    [locals |-> locals, parent |-> parent,
     capture |-> <<>>, captureReferences |-> <<>>, captureFieldAccesses |-> <<>>,
     visited |-> EmptyMap, rewrittenExpressions |-> <<>>,
     lambda |-> lam, closed |-> FALSE]

\* An addCapture that puts the new capture in front.
addCaptureInFront(sc, reference, field, fieldAccess) ==
    [sc EXCEPT !.capture = <<field>> \o @,
               !.captureReferences = <<reference>> \o @,
               !.captureFieldAccesses = <<fieldAccess>> \o @]

addCapture(sc, reference, field, fieldAccess) ==
    [sc EXCEPT !.capture = Append(@, field),
               !.captureReferences = Append(@, reference),
               !.captureFieldAccesses = Append(@, fieldAccess)]

InSeq(x, s) == \E i \in 1..Len(s) : s[i] = x

-----------------------------------------------------------------------------
(* Flattening.                                                             *)

allInputTypesEquivalent(expr) ==
    \A i \in 2..Len(expr.inputs) :
       equivalent(expr.inputs[1].type, expr.inputs[i].type)

NoName == [has |-> FALSE, name |-> ""]

\* Flattening for the registry's candidates only, 'and' and 'or' like any
\* other name.
shouldFlattenCandidates(expr, candidates) ==
    IF /\ expr.kind = "Call"
       /\ expr.name \in candidates
       /\ allInputTypesEquivalent(expr)
    THEN [has |-> TRUE, name |-> expr.name]
    ELSE NoName

shouldFlatten(expr, candidates) ==
    IF /\ expr.kind = "Call"
       /\ \/ expr.name = "and"
          \/ expr.name = "or"
          \/ (expr.name \in candidates /\ allInputTypesEquivalent(expr))
    THEN [has |-> TRUE, name |-> expr.name]
    ELSE NoName

isCall(expr, name) == expr.kind = "Call" /\ expr.name = name

RECURSIVE flattenInput(_, _), flattenEach(_, _)
flattenInput(input, flattenCall) ==
    IF isCall(input, flattenCall) /\ allInputTypesEquivalent(input)
    THEN flattenEach(input.inputs, flattenCall)
    ELSE <<input>>

\* The loop of flattenInput over the children, appending to 'flat'.
flattenEach(children, flattenCall) ==
    IF children = <<>> THEN <<>>
    ELSE flattenInput(Head(children), flattenCall)
           \o flattenEach(Tail(children), flattenCall)

getAlreadyCompiled(expr, visited) ==
    IF expr \in DOMAIN visited THEN visited[expr] ELSE 0

getTypes(ids, h) == [i \in 1..Len(ids) |-> h[ids[i]].type]

\* Aligned with the inputs: the constant's value, or no value.
getConstantInputs(ids, h) ==
    [i \in 1..Len(ids) |->
       IF isConstant(h[ids[i]]) THEN h[ids[i]].value ELSE NoValue]

-----------------------------------------------------------------------------
(* Rewrites.  The registry holds one rewrite: ident(e) becomes e.          *)

RewriteIdent(expr) ==
    IF isCall(expr, "ident") /\ Len(expr.inputs) = 1 THEN expr.inputs[1] ELSE NoIR

expressionRewrites == <<"ident">>

ApplyRewrite(r, expr) == IF r = "ident" THEN RewriteIdent(expr) ELSE NoIR

rewriteExpression(expr) ==
    IF \E i \in 1..Len(expressionRewrites) :
          ApplyRewrite(expressionRewrites[i], expr) # NoIR
    THEN ApplyRewrite(
           expressionRewrites[
             CHOOSE i \in 1..Len(expressionRewrites) :
               /\ ApplyRewrite(expressionRewrites[i], expr) # NoIR
               /\ \A j \in 1..(i - 1) :
                    ApplyRewrite(expressionRewrites[j], expr) = NoIR],
           expr)
    ELSE expr

-----------------------------------------------------------------------------
(* The compiler.  Each function takes the state it runs in (heap, scopes,  *)
(* toReset, clears, log, err) and returns the state it leaves, with its    *)
(* result in ret (one pointer) or rets (a vector of pointers).  A thrown   *)
(* exception is a non-empty err, which every caller passes on.             *)

\* A capture recorded in the referencing Scope only, not in the Scopes
\* around it.
captureInnermostOnly(reference, field, fieldAccess, scope, st) ==
    IF st.scopes[scope].parent = 0 THEN st
    ELSE IF \/ InSeq(field, st.scopes[scope].locals)
            \/ InSeq(field, st.scopes[scope].capture)
         THEN st
         ELSE [st EXCEPT !.scopes[scope] =
                   addCapture(@, reference, field, fieldAccess)]

RECURSIVE captureFieldReference(_, _, _, _, _)
captureFieldReference(reference, field, fieldAccess, scope, st) ==
    IF st.scopes[scope].parent = 0 THEN st
    ELSE IF \/ InSeq(field, st.scopes[scope].locals)
            \/ InSeq(field, st.scopes[scope].capture)
         THEN st
         ELSE captureFieldReference(
                reference, field, fieldAccess, st.scopes[scope].parent,
                [st EXCEPT !.scopes[scope] =
                     addCapture(@, reference, field, fieldAccess)])

getSpecialForm(name, type, compiledChildren, st) ==
    IF name \in SpecialFormNames
    THEN Alloc(st, SpecialFormExpr(name, type, compiledChildren), name)
    ELSE [st EXCEPT !.ret = 0]

IncompatibleReturnTypes == "Found incompatible return types"
NameNotRegistered == "Scalar function name not registered"
SignatureNotRegistered == "Scalar function not registered with arguments"

SignaturesOf(map, name) ==
    IF name \in DOMAIN map THEN map[name].signatures ELSE <<>>

getVectorFunctionWithMetadata(name, inputTypes) ==
    FirstMatch(SignaturesOf(functionMap, name), inputTypes)

resolveSimpleFunction(name, inputTypes) ==
    FirstMatch(SignaturesOf(SimpleFunctionMap, name), inputTypes)

\* The lookups with the simple functions tried before the vector functions.
resolveCallSimpleFirst(name, inputTypes) ==
    IF name \in SpecialFormNames THEN "special"
    ELSE IF resolveSimpleFunction(name, inputTypes) # NoSig THEN "simple"
    ELSE IF getVectorFunctionWithMetadata(name, inputTypes) # NoSig THEN "vector"
    ELSE "none"

\* The order of compileCall's three lookups: the first that resolves.
resolveCall(name, inputTypes) ==
    IF name \in SpecialFormNames THEN "special"
    ELSE IF getVectorFunctionWithMetadata(name, inputTypes) # NoSig THEN "vector"
    ELSE IF resolveSimpleFunction(name, inputTypes) # NoSig THEN "simple"
    ELSE "none"

\* No check of the simple function's return type.
returnTypesUnchecked(resultType, entryType) == TRUE

\* VELOX_USER_CHECK on the simple function's return type.
returnTypesCompatible(resultType, entryType) == equivalent(resultType, entryType)

\* The signatures the error lists: the vector function's, then the simple
\* function's.
knownSignatures(name) ==
    SignaturesOf(functionMap, name) \o SignaturesOf(SimpleFunctionMap, name)

compileCall(expr, inputs, st) ==
    LET resultType == expr.type
        inputTypes == getTypes(inputs, st.heap)
        resolved == resolveCall(expr.name, inputTypes)
    IN  CASE resolved = "special" ->
               Alloc(st, SpecialFormExpr(expr.name, resultType, inputs), "special")
          [] resolved = "vector" ->
               Alloc(st, GenericExpr(resultType, inputs,
                                     functionMap[expr.name].deterministic,
                                     expr.name), "vector")
          [] resolved = "simple" ->
               IF ~returnTypesCompatible(
                     resultType, resolveSimpleFunction(expr.name, inputTypes).ret)
               THEN Fail(st, UserError(IncompatibleReturnTypes, expr.name, <<>>))
               ELSE Alloc(st, GenericExpr(resultType, inputs,
                                          SimpleFunctionMap[expr.name].deterministic,
                                          expr.name), "simple")
          [] OTHER ->
               IF knownSignatures(expr.name) = <<>>
               THEN Fail(st, UserError(NameNotRegistered, expr.name, <<>>))
               ELSE Fail(st, UserError(SignatureNotRegistered, expr.name,
                                       knownSignatures(expr.name)))

\* A cast that is dropped whenever the two types are equivalent, field names
\* aside.
castIsIdentityUpToNames(resultType, inputType) == equivalent(resultType, inputType)

\* *resultType == *inputs[0]->type()
castIsIdentity(resultType, inputType) == typeEquals(resultType, inputType)

compileCast(expr, inputs, st) ==
    IF Len(inputs) # 1
    THEN Fail(st, RuntimeError("VELOX_CHECK_EQ(1, inputs.size())"))
    ELSE IF castIsIdentity(expr.type, st.heap[inputs[1]].type)
         THEN [st EXCEPT !.ret = inputs[1], !.how = "cast-identity"]
         ELSE getSpecialForm(IF expr.isTryCast THEN "try_cast" ELSE "cast",
                             expr.type, inputs, st)

\* The ExprSet's ExecCtx is the one compileExpressions dereferences for every
\* source, so it is never null when a fold is attempted.
exprSetHasExecCtx == TRUE

\* A fold that swallows whatever the evaluation throws.
foldCatchesAll(thrown) == TRUE

\* catch (const VeloxUserError&): the exceptions the fold swallows.
foldCatches(thrown) == thrown = "user"

\* ret is the folded ConstantExpr or the expression itself; fold tells which.
tryFoldIfConstant(expr, scope, st) ==
    LET node == st.heap[expr]
        thrown == EvalThrows(node.name)
    IN  IF isConstantExpr(node, st.heap) /\ exprSetHasExecCtx
        THEN IF thrown = "none"
             THEN [Alloc(st, ConstantExpr(node.type, EvalValue(node, st.heap)), st.how)
                     EXCEPT !.fold = "folded"]
             ELSE IF foldCatches(thrown)
             THEN [st EXCEPT !.ret = expr, !.fold = "userError"]
             ELSE Fail(st, SystemError("thrown while folding"))
        ELSE [st EXCEPT !.ret = expr, !.fold = "notConstant"]

RECURSIVE compileExpression(_, _, _)
RECURSIVE compileRewrittenExpression(_, _, _)
RECURSIVE compileInputsFrom(_, _, _, _, _, _)
RECURSIVE compileFlat(_, _, _, _, _)
RECURSIVE compileLambda(_, _, _)
RECURSIVE materializeCaptures(_, _, _, _, _)

\* compileInputs' push_back of one compiled entry of 'flat'; an exception
\* ends the loop.
pushCompiled(flat, j, scope, acc, compiled) ==
    IF ~Ok(compiled) THEN compiled
    ELSE compileFlat(flat, j + 1, scope, compiled, Append(acc, compiled.ret))

\* compileInputs' loop over 'flat' from entry j on; acc is compiledInputs so
\* far.
compileFlat(flat, j, scope, st, acc) ==
    IF j > Len(flat) THEN [st EXCEPT !.rets = acc]
    ELSE pushCompiled(flat, j, scope, acc, compileExpression(flat[j], scope, st))

\* compileInputs' step to the input after i, once input i is compiled.
nextInput(expr, flattenIf, i, scope, compiled) ==
    IF ~Ok(compiled) THEN compiled
    ELSE compileInputsFrom(expr, flattenIf, i + 1, scope, compiled, compiled.rets)

\* compileInputs' loop from input i on; acc is compiledInputs so far.
compileInputsFrom(expr, flattenIf, i, scope, st, acc) ==
    IF i > Len(expr.inputs) THEN [st EXCEPT !.rets = acc]
    ELSE IF expr.inputs[i].kind = "Input"
         THEN IF expr.kind = "FieldAccess"
              THEN compileInputsFrom(expr, flattenIf, i + 1, scope, st, acc)
              ELSE Fail(st, RuntimeError(
                     "An InputReference can only occur under a FieldReference"))
         ELSE nextInput(
                expr, flattenIf, i, scope,
                compileFlat(IF flattenIf.has
                            THEN flattenInput(expr.inputs[i], flattenIf.name)
                            ELSE <<expr.inputs[i]>>,
                            1, scope, st, acc))

\* A decision that looks the name up in the registry as it is now.
flattenIfRegistered(expr) ==
    shouldFlatten(expr, {name \in DOMAIN functionMap :
                           functionMap[name].supportsFlattening})

\* compileInputs' flattenIf: the decision, from the candidates handed down.
flattenIf(expr) == shouldFlatten(expr, flatteningCandidates)

compileInputs(expr, scope, st) ==
    compileInputsFrom(expr, flattenIf(expr), 1, scope, st, <<>>)

\* A capture that hands the lambda Scope's own reference to the enclosing
\* Scope instead of making one.
shareCaptureReference(inner, st) == [st EXCEPT !.ret = inner]

\* The FieldReference compileLambda makes for a capture the enclosing Scope
\* has not compiled.
newCaptureReference(inner, st) ==
    Alloc(st, FieldReference(st.heap[inner].type, <<>>, st.heap[inner].name), st.how)

\* scope->visited[expr] = reference, for the reference just made.
insertCapture(i, lambdaScope, scope, acc, expr, made) ==
    materializeCaptures(
      i + 1, lambdaScope, scope,
      [made EXCEPT !.scopes[scope].visited = MapPut(@, expr, made.ret)],
      Append(acc, made.ret))

\* A loop body that makes a FieldReference for every capture, whatever the
\* enclosing Scope holds.
materializeCaptureAfresh(i, lambdaScope, scope, st, acc, expr, reference) ==
    insertCapture(
      i, lambdaScope, scope, acc, expr,
      newCaptureReference(st.scopes[lambdaScope].captureReferences[i], st))

\* compileLambda's loop body for capture i, with what the enclosing Scope
\* holds for its field access.
materializeCapture(i, lambdaScope, scope, st, acc, expr, reference) ==
    IF reference # 0
    THEN materializeCaptures(i + 1, lambdaScope, scope, st, Append(acc, reference))
    ELSE insertCapture(
           i, lambdaScope, scope, acc, expr,
           newCaptureReference(st.scopes[lambdaScope].captureReferences[i], st))

\* compileLambda's loop over the lambda Scope's captures, from capture i on.
materializeCaptures(i, lambdaScope, scope, st, acc) ==
    IF i > Len(st.scopes[lambdaScope].capture) THEN [st EXCEPT !.rets = acc]
    ELSE materializeCapture(
           i, lambdaScope, scope, st, acc,
           st.scopes[lambdaScope].captureFieldAccesses[i],
           getAlreadyCompiled(st.scopes[lambdaScope].captureFieldAccesses[i],
                              st.scopes[scope].visited))

\* compileLambda's return: the LambdaExpr over the captures and the body.
makeLambdaExpr(lambda, lambdaScope, body, captured) ==
    Alloc([captured EXCEPT !.scopes[lambdaScope].closed = TRUE],
          LambdaExpr(lambda.params, captured.rets, body), "lambda")

\* compileLambda after the body is compiled in the lambda Scope.
captureAndMake(lambda, scope, lambdaScope, body) ==
    IF ~Ok(body) THEN body
    ELSE makeLambdaExpr(lambda, lambdaScope, body.ret,
                        materializeCaptures(1, lambdaScope, scope, body, <<>>))

compileLambda(lambda, scope, st) ==
    captureAndMake(
      lambda, scope, Len(st.scopes) + 1,
      compileExpression(
        lambda.body[1], Len(st.scopes) + 1,
        [st EXCEPT !.scopes = Append(@, Scope(lambda.params, scope, <<lambda>>))]))

LogEntry(scope, expr, how, built, ret, fold) ==
    [scope |-> scope, expr |-> expr, how |-> how, built |-> built, ret |-> ret,
     fold |-> fold, source |-> nextSource]

\* The kFieldAccess case once the FieldReference is made.
captureIfInputColumn(expr, scope, made) ==
    IF isInputColumn(expr)
    THEN captureFieldReference(made.ret, expr.name, expr, scope, made)
    ELSE made

\* The node of the switch over expr->kind(), before folding.
buildResult(expr, scope, compiledInputs, st) ==
    CASE expr.kind = "Concat" ->
           getSpecialForm("row_constructor", expr.type, compiledInputs, st)
      [] expr.kind = "Cast" -> compileCast(expr, compiledInputs, st)
      [] expr.kind = "Call" -> compileCall(expr, compiledInputs, st)
      [] expr.kind = "FieldAccess" ->
           captureIfInputColumn(
             expr, scope,
             Alloc(st, FieldReference(expr.type, compiledInputs, expr.name), "field"))
      [] expr.kind = "Dereference" ->
           Alloc(st, FieldReference(expr.type, compiledInputs, expr.name), "dereference")
      [] expr.kind = "Input" ->
           Fail(st, UserError("InputTypedExpr is not supported", "", <<>>))
      [] expr.kind = "Constant" ->
           Alloc(st, ConstantExpr(expr.type, Lit(expr.name)), "constant")
      [] expr.kind = "Lambda" -> compileLambda(expr, scope, st)
      [] OTHER -> Fail(st, UserError("Unknown typed expression", "", <<>>))

\* A cache hit that promotes the node whether or not it was promoted before.
markEveryHit(alreadyCompiled, st) ==
    [st EXCEPT !.toReset = Append(@, alreadyCompiled),
               !.heap[alreadyCompiled].isMultiplyReferenced = TRUE,
               !.heap[alreadyCompiled].metaDataClears = @ + 1]

\* A cache hit that returns the node without promoting it.
markNothing(alreadyCompiled, st) == st

\* The cache hit's promotion of a node that was referenced once.
markMultiplyReferenced(alreadyCompiled, st) ==
    IF ~st.heap[alreadyCompiled].isMultiplyReferenced
    THEN [st EXCEPT !.toReset = Append(@, alreadyCompiled),
                    !.heap[alreadyCompiled].isMultiplyReferenced = TRUE,
                    !.heap[alreadyCompiled].metaDataClears = @ + 1]
    ELSE st

\* A clear after a fold that made a constant only.
clearWhenFolded(folded) ==
    IF Ok(folded) /\ folded.fold = "folded"
    THEN [folded EXCEPT !.clears = @ + 1]
    ELSE folded

\* scope->exprSet->clear() after a fold that returned.
clearExprSet(folded) ==
    IF Ok(folded) THEN [folded EXCEPT !.clears = @ + 1] ELSE folded

\* The fold of the node the switch built, when folding is enabled and the
\* node is not a constant already.
foldResult(result, scope) ==
    IF enableConstantFolding /\ ~isConstant(result.heap[result.ret])
    THEN clearExprSet(tryFoldIfConstant(result.ret, scope, result))
    ELSE [result EXCEPT !.fold = "none"]

\* scope->visited[expr.get()] = compiled, and the return.
cacheCompiled(expr, scope, inputs, how, built, compiled) ==
    IF ~Ok(compiled) THEN ThrownIn(compiled, expr, scope, inputs)
    ELSE [compiled EXCEPT
            !.scopes[scope].visited = MapPut(@, expr, compiled.ret),
            !.log = Append(@, LogEntry(scope, expr, how, built, compiled.ret,
                                       compiled.fold))]

\* compileRewrittenExpression after the switch has built 'result'.
foldAndCache(expr, scope, inputs, result) ==
    IF ~Ok(result) THEN ThrownIn(result, expr, scope, inputs)
    ELSE IF result.ret = 0
         THEN Fail(result, MkErr("crash", "nullptr dereferenced", "", <<>>))
         ELSE cacheCompiled(expr, scope, inputs, result.how, result.ret,
                            foldResult(result, scope))

\* compileRewrittenExpression after the inputs are compiled.
compileWithInputs(expr, scope, compiledInputs) ==
    IF ~Ok(compiledInputs) THEN compiledInputs
    ELSE foldAndCache(expr, scope, compiledInputs.rets,
                      buildResult(expr, scope, compiledInputs.rets, compiledInputs))

\* compileRewrittenExpression on a cache hit.
returnAlreadyCompiled(expr, scope, alreadyCompiled, st) ==
    [markMultiplyReferenced(alreadyCompiled, st) EXCEPT
       !.ret = alreadyCompiled,
       !.log = Append(@, LogEntry(scope, expr, "hit", alreadyCompiled,
                                  alreadyCompiled, "none"))]

compileRewrittenExpression(expr, scope, st) ==
    IF getAlreadyCompiled(expr, st.scopes[scope].visited) # 0
    THEN returnAlreadyCompiled(
           expr, scope, getAlreadyCompiled(expr, st.scopes[scope].visited), st)
    ELSE compileWithInputs(expr, scope, compileInputs(expr, scope, st))

compileExpression(expr, scope, st) ==
    compileRewrittenExpression(
      rewriteExpression(expr), scope,
      IF rewriteExpression(expr) # expr
      THEN [st EXCEPT !.scopes[scope].rewrittenExpressions =
                          Append(@, rewriteExpression(expr))]
      ELSE st)

RECURSIVE collectCallNames(_)
collectCallNames(expr) ==
    (IF expr.kind = "Call" THEN {expr.name} ELSE {})
      \cup UNION {collectCallNames(expr.inputs[i]) : i \in 1..Len(expr.inputs)}

collectFlatteningCandidates(srcs) ==
    LET names == UNION {collectCallNames(srcs[i]) : i \in 1..Len(srcs)}
    IN  {name \in names :
           /\ name \in DOMAIN functionMap
           /\ functionMap[name].supportsFlattening}

-----------------------------------------------------------------------------
(* The typed expressions a caller hands    to compileExpressions.             *)

colA == Col("BOOLEAN", "a")
colB == Col("BOOLEAN", "b")
colC == Col("BOOLEAN", "c")
colD == Col("BOOLEAN", "d")
colX == Col("BIGINT", "x")
colR == Col("ROW_a", "r")
varK == Var("BIGINT", "k")
varJ == Var("BIGINT", "j")
array1 == Col("ARRAY", "array1")
array2 == Col("ARRAY", "array2")
one == Const("BIGINT", "1")
two == Const("BIGINT", "2")
null == Const("UNKNOWN", "null")

And(lhs, rhs) == Call("BOOLEAN", "and", <<lhs, rhs>>)
Or(lhs, rhs) == Call("BOOLEAN", "or", <<lhs, rhs>>)
Concat(lhs, rhs) == Call("ARRAY", "concat", <<lhs, rhs>>)
Plus(lhs, rhs) == Call("BIGINT", "plus", <<lhs, rhs>>)

SourceExprs ==
    { colA, colX,
      And(colA, And(colB, colC)),
      Or(Or(colA, colB), Or(colC, colD)),
      And(colA, And(colB, Or(colC, colD))),
      And(colA, And(colB, null)),
      Concat(array1, Concat(array2, Concat(array2, colX))),
      Concat(Concat(array1, array2), colX),
      Cast("BIGINT", colX, FALSE), Cast("BIGINT", colX, TRUE),
      Cast("BOOLEAN", colX, FALSE), Cast("BOOLEAN", colX, TRUE),
      Cast("ROW_b", colR, FALSE),
      Cast("BIGINT", Call("BIGINT", "fail_user", <<one>>), FALSE),
      Plus(one, two),
      Call("BIGINT", "fail_user", <<one>>),
      Call("BIGINT", "fail_sys", <<one>>),
      Call("BIGINT", "rand", <<one>>),
      Call("BOOLEAN", "rand", <<colX>>),
      Call("ROW_b", "sf", <<colR>>),
      Call("BOOLEAN", "sf", <<colX>>),
      Call("BIGINT", "nf", <<colX>>),
      Plus(colA, colX),
      Call("BIGINT", "coalesce", <<colX, one>>),
      Call("BIGINT", "coalesce",
           <<colX, Plus(one, two), Call("BIGINT", "fail_user", <<one>>)>>),
      Call("BIGINT", "vs", <<colX>>),
      Call("BOOLEAN", "vs", <<colA>>),
      Call("BIGINT", "ident", <<colX>>),
      Plus(InputRef, one),
      InputRef,
      And(And(InputRef, colR), colA),
      Deref("BIGINT", "0", colR),
      Sub("BIGINT", "f", colR),
      RowCtor("ROW_a", <<colX>>),
      Lambda(<<"k">>, Plus(varK, colX)),
      Lambda(<<"k">>, Plus(varK, one)),
      Lambda(<<"k">>, Lambda(<<"j">>, Plus(varJ, Plus(varK, colX)))),
      Lambda(<<"k">>, Concat(array1, Concat(array2, array1))) }

\* The expressions that share subtrees, names or captured columns with one
\* another: the ones several sources of one call are drawn from.
SharedExprs ==
    { colA, colX,
      And(colA, And(colB, colC)),
      Cast("BIGINT", colX, FALSE),
      Plus(one, two),
      Call("BIGINT", "fail_user", <<one>>),
      Call("BIGINT", "ident", <<colX>>),
      Call("BIGINT", "nf", <<colX>>),
      Concat(array1, Concat(array2, array1)),
      Lambda(<<"k">>, Plus(varK, colX)),
      Lambda(<<"k">>, Lambda(<<"j">>, Plus(varJ, Plus(varK, colX)))),
      Lambda(<<"j">>, Plus(varJ, Plus(colX, varK))),
      Lambda(<<"k">>, Lambda(<<"j">>, Plus(varJ, Plus(colX, varK)))),
      Lambda(<<"k">>, Concat(array1, Concat(array2, array1))) }

\* A call compiles one source out of SourceExprs, or up to MaxSources sources
\* out of SharedExprs.
SourceLists ==
    {<<e>> : e \in SourceExprs}
      \cup UNION {[1..n -> SharedExprs] : n \in 2..MaxSources}

-----------------------------------------------------------------------------
(* compileExpressions.                                                     *)

Current ==
    [heap |-> heap, scopes |-> scopes, toReset |-> toReset, clears |-> clears,
     log |-> log, err |-> NoErr, ret |-> 0, rets |-> <<>>, how |-> "", fold |-> "none"]

Init ==
    /\ pc = "idle"
    /\ sources = <<>>
    /\ nextSource = 1
    /\ exprs = <<>>
    /\ enableConstantFolding = FALSE
    /\ flatteningCandidates = {}
    /\ functionMap = VectorFunctionMap
    /\ lockedMap = VectorFunctionMap
    /\ heap = <<>>
    /\ scopes = <<>>
    /\ toReset = <<>>
    /\ clears = 0
    /\ log = <<>>
    /\ err = NoErr
    /\ earlier = <<>>
    /\ castPc = "idle"
    /\ fromKind = ""
    /\ toKind = ""
    /\ policy = ""
    /\ setNullInResultAtError = FALSE
    /\ captureErrorDetails = FALSE
    /\ selectedRows = {}
    /\ inputVector = <<>>
    /\ resultVector = <<>>
    /\ contextErrors = <<>>
    /\ escaped = [kind |-> "none", message |-> ""]
    /\ converterInput = <<>>
    /\ kernel = ""
    /\ truncate = FALSE
    /\ fromScale = 0
    /\ firstPass = <<>>
    /\ stringBuffer = <<>>

\* Scopes that outlive the call that made them.
keptScopes(left) == IF left = <<>> THEN <<Scope(<<>>, 0, <<>>)>> ELSE left

\* compileExpressions' "Scope scope({}, nullptr, exprSet)": the Scopes of the
\* call as it starts, whatever Scopes the call before has left.
newScopes(left) == <<Scope(<<>>, 0, <<>>)>>

\* The call is entered: the top-level Scope is made and the flattening
\* candidates are collected, before any source is compiled.
Enter(srcs, folding) ==
    /\ pc = "idle"
    /\ pc' = "compiling"
    /\ sources' = srcs
    /\ enableConstantFolding' = folding
    /\ scopes' = newScopes(scopes)
    /\ flatteningCandidates' = collectFlatteningCandidates(srcs)
    /\ lockedMap' = functionMap
    /\ UNCHANGED <<nextSource, exprs, functionMap, heap, toReset, clears, log, err,
                   earlier>>
    /\ UNCHANGED castVars

\* exprs.push_back of the compiled source, or the exception leaving the
\* call.
PushBack(done) ==
    /\ heap' = done.heap
    /\ scopes' = done.scopes
    /\ toReset' = done.toReset
    /\ clears' = done.clears
    /\ log' = done.log
    /\ err' = done.err
    /\ IF Ok(done)
       THEN /\ exprs' = Append(exprs, done.ret)
            /\ nextSource' = nextSource + 1
            /\ pc' = "compiling"
       ELSE /\ pc' = "thrown"
            /\ UNCHANGED <<exprs, nextSource>>

\* One iteration of the loop over the sources.
CompileSource ==
    /\ pc = "compiling"
    /\ nextSource <= Len(sources)
    /\ PushBack(compileExpression(sources[nextSource], 1, Current))
    /\ UNCHANGED <<sources, enableConstantFolding, flatteningCandidates,
                   functionMap, lockedMap, earlier>>
    /\ UNCHANGED castVars

Return ==
    /\ pc = "compiling"
    /\ nextSource > Len(sources)
    /\ pc' = "returned"
    /\ UNCHANGED <<sources, nextSource, exprs, enableConstantFolding,
                   flatteningCandidates, functionMap, lockedMap, heap, scopes,
                   toReset, clears, log, err, earlier>>
    /\ UNCHANGED castVars

Next ==
    \/ \E srcs \in SourceLists, folding \in BOOLEAN : Enter(srcs, folding)
    \/ CompileSource
    \/ Return

Spec == Init /\ [][Next]_vars

-----------------------------------------------------------------------------
(* compileExpressions while other threads register and remove vector       *)
(* functions.  The registry is read under its lock: each read sees the map *)
(* as one writer left it.                                                  *)

\* The functions the other threads register again or remove.
RegistryNames == {"concat", "plus"}

\* A registration of the function under its name, with this metadata; it
\* replaces the entry the name has.
registerVectorFunction(name, flattening) ==
    /\ functionMap' =
         [n \in DOMAIN functionMap \cup {name} |->
            IF n = name
            THEN [VectorFunctionMap[name] EXCEPT !.supportsFlattening = flattening]
            ELSE functionMap[n]]
    /\ functionMap' # functionMap
    /\ UNCHANGED <<pc, sources, nextSource, exprs, enableConstantFolding,
                   flatteningCandidates, lockedMap, heap, scopes, toReset, clears,
                   log, err, earlier>>
    /\ UNCHANGED castVars

removeFunction(name) ==
    /\ name \in DOMAIN functionMap
    /\ functionMap' = [n \in DOMAIN functionMap \ {name} |-> functionMap[n]]
    /\ UNCHANGED <<pc, sources, nextSource, exprs, enableConstantFolding,
                   flatteningCandidates, lockedMap, heap, scopes, toReset, clears,
                   log, err, earlier>>
    /\ UNCHANGED castVars

\* The sources compiled while the registry changes: calls of the two
\* functions, nested, at the top level and inside a lambda.
RegistryExprs ==
    { Concat(array1, Concat(array2, array1)),
      Concat(Concat(array2, array1), array2),
      Lambda(<<"k">>, Concat(array1, Concat(array2, array1))),
      Plus(colX, Plus(colX, one)),
      Lambda(<<"k">>, Plus(varK, Plus(colX, one))) }

RegistrySourceLists == UNION {[1..n -> RegistryExprs] : n \in 1..MaxSources}

RegistryNext ==
    \/ \E srcs \in RegistrySourceLists : Enter(srcs, FALSE)
    \/ CompileSource
    \/ Return
    \/ \E name \in RegistryNames, flattening \in BOOLEAN :
          registerVectorFunction(name, flattening)
    \/ removeFunction("concat")

RegistrySpec == Init /\ [][RegistryNext]_vars

-----------------------------------------------------------------------------
(* Two compileExpressions calls on one ExprSet, one after the other.  The  *)
(* nodes of the first call stay in the heap and in the ExprSet's reset     *)
(* list; log holds the entries of the call that runs.                      *)

MaxCalls == 2

\* The sources of the calls: expressions that share subtrees.
CallExprs ==
    { colX, Plus(colX, one), Plus(Plus(colX, one), two),
      Lambda(<<"k">>, Plus(varK, colX)) }

CallSourceLists == UNION {[1..n -> CallExprs] : n \in 1..MaxSources}

\* The sources of a later call: the sources of the call before, or one
\* expression.
LaterSourceLists == {sources} \cup {<<e>> : e \in CallExprs}

\* compileExpressions is called once more, after the call before has
\* returned.
CallAgain(srcs, folding) ==
    /\ pc = "returned"
    /\ Len(earlier) + 1 < MaxCalls
    /\ earlier' = Append(earlier, exprs)
    /\ pc' = "compiling"
    /\ sources' = srcs
    /\ nextSource' = 1
    /\ exprs' = <<>>
    /\ enableConstantFolding' = folding
    /\ scopes' = newScopes(scopes)
    /\ flatteningCandidates' = collectFlatteningCandidates(srcs)
    /\ lockedMap' = functionMap
    /\ log' = <<>>
    /\ UNCHANGED <<functionMap, heap, toReset, clears, err>>
    /\ UNCHANGED castVars

CallsNext ==
    \/ \E srcs \in CallSourceLists, folding \in BOOLEAN : Enter(srcs, folding)
    \/ CompileSource
    \/ Return
    \/ \E srcs \in LaterSourceLists, folding \in BOOLEAN : CallAgain(srcs, folding)

CallsSpec == Init /\ [][CallsNext]_vars

-----------------------------------------------------------------------------
(* The primitive cast kernel.  A row's input value carries what the hooks  *)
(* and the converter make of it: what removeWhiteSpaces leaves, whether it *)
(* is ASCII, and what the conversion returns or throws.                    *)

\* Rows of the batch.
MaxRows == 2

IntegerKinds == {"TINYINT", "SMALLINT", "INTEGER", "BIGINT", "HUGEINT"}
StringKinds == {"VARCHAR", "VARBINARY"}

\* TypeTraits<ToKind>::isPrimitiveType && TypeTraits<ToKind>::isFixedWidth,
\* as the kernel contract gives it: the targets whose string input is
\* stripped.
isPrimitiveFixedWidth(kind) == kind \notin StringKinds \cup {"TIMESTAMP"}

CastPolicies ==
    {"LegacyCastPolicy", "PrestoCastPolicy", "SparkCastPolicy", "SparkTryCastPolicy"}

throwOnUnicode(p) == p \in {"SparkCastPolicy", "SparkTryCastPolicy"}

\* What a hook or the converter does with a value: it returns a value, an
\* error or (castDoubleToTimestamp only) no value, or it throws.
Returns(v) == [tag |-> "value", payload |-> v]
ReturnsError(message) == [tag |-> "error", payload |-> message]
ReturnsNullopt == [tag |-> "nullopt", payload |-> ""]
Throws(kind, message) == [tag |-> kind, payload |-> message]

ExceptionKinds == {"VeloxUserError", "VeloxRuntimeError", "std::exception"}

RowValue(text, stripped, ascii, converts) ==
    [text |-> text, stripped |-> stripped, isAscii |-> ascii, converts |-> converts]

Conversions ==
    {Returns("v"), ReturnsError("bad value"),
     Throws("VeloxUserError", "user failure"),
     Throws("VeloxRuntimeError", "runtime failure"),
     Throws("std::exception", "bad_alloc")}

\* The values a row of the input vector can hold, for a kernel.
RowValues(from, to) ==
    {RowValue("x", "x", TRUE, conv) : conv \in Conversions}
      \cup (IF from \in StringKinds
            THEN {RowValue("  ", "", TRUE, Returns("v")),
                  RowValue(" u ", "u", FALSE, Returns("v"))}
            ELSE {})
      \cup (IF from \in {"DOUBLE", "REAL"} /\ to = "TIMESTAMP"
            THEN {RowValue("NaN", "NaN", TRUE, ReturnsNullopt)}
            ELSE {})

\* The instantiations of the kernel that are checked.
KernelKinds ==
    {<<"BIGINT", "TIMESTAMP">>, <<"BOOLEAN", "TIMESTAMP">>,
     <<"TIMESTAMP", "BIGINT">>, <<"DOUBLE", "TIMESTAMP">>,
     <<"VARCHAR", "TIMESTAMP">>, <<"VARCHAR", "DOUBLE">>,
     <<"VARCHAR", "BIGINT">>, <<"VARCHAR", "BOOLEAN">>,
     <<"VARCHAR", "VARBINARY">>, <<"BIGINT", "VARCHAR">>}

removeWhiteSpaces(value) == value.stripped

\* fmt::format("Cannot cast {} '{}' to {}. {}", ...): the pieces in order.
makeErrorMessage(fromType, text, toType, details) ==
    <<"Cannot cast ", fromType, " '", text, "' to ", toType, ". ", details>>

NoMessage == <<>>
UserErrorStatus(message) == [code |-> "UserError", message |-> message]

NoException == [kind |-> "none", message |-> ""]
Exception(kind, message) == [kind |-> kind, message |-> message]
isVeloxException(e) == e.kind \in {"VeloxUserError", "VeloxRuntimeError"}
isUserError(e) == e.kind = "VeloxUserError"

\* A row of the input vector that has not been read, of the result vector
\* that has not been written, and of the context's errors.
Unread == [text |-> "?", stripped |-> "?", isAscii |-> TRUE,
           converts |-> [tag |-> "unread", payload |-> ""]]
Unset == [isNull |-> FALSE, written |-> FALSE, value |-> ""]
NotCalled == [called |-> FALSE, with |-> ""]
CalledWith(text) == [called |-> TRUE, with |-> text]
NoError == [set |-> FALSE, by |-> "", payload |-> NoMessage]
setNull(k, row) == [k EXCEPT !.result[row].isNull = TRUE]
setValue(k, row, v) ==
    [k EXCEPT !.result[row] = [isNull |-> FALSE, written |-> TRUE, value |-> v]]
setStatus(k, row, status) ==
    [k EXCEPT !.errors[row] = [set |-> TRUE, by |-> "setStatus", payload |-> status]]
setVeloxExceptionError(k, row, e) ==
    [k EXCEPT !.errors[row] =
        [set |-> TRUE, by |-> "setVeloxExceptionError", payload |-> e]]
setContextError(k, row, e) ==
    [k EXCEPT !.errors[row] = [set |-> TRUE, by |-> "setError", payload |-> e]]

\* A setError that records the error in a try-cast too.
setErrorNeverNull(details, row, k) ==
    IF captureErrorDetails
    THEN setStatus([k EXCEPT !.wrapException = FALSE], row,
                   UserErrorStatus(makeErrorMessage(
                     fromKind, k.input[row].text, toKind, details)))
    ELSE setStatus([k EXCEPT !.wrapException = FALSE], row,
                   UserErrorStatus(NoMessage))

\* A setError that records the error and nulls the row.
setErrorAndNull(details, row, k) == setNull(setErrorNeverNull(details, row, k), row)

\* applyCastKernel's lambda setError.
setError(details, row, k) ==
    IF setNullInResultAtError
    THEN setNull(k, row)
    ELSE IF captureErrorDetails
         THEN setStatus([k EXCEPT !.wrapException = FALSE], row,
                        UserErrorStatus(makeErrorMessage(
                          fromKind, k.input[row].text, toKind, details)))
         ELSE setStatus([k EXCEPT !.wrapException = FALSE], row,
                        UserErrorStatus(NoMessage))

\* A call of a hook or of the converter inside the try block, with
\* value.text the string it is called with: what it returns, or the exception
\* it throws in k.raised.
call(row, value, k) ==
    IF value.converts.tag \in ExceptionKinds
    THEN [k EXCEPT !.handed[row] = CalledWith(value.text),
                   !.raised = Exception(value.converts.tag, value.converts.payload)]
    ELSE [k EXCEPT !.handed[row] = CalledWith(value.text)]

\* A strip that does not look at the target type.
stripAlways(value) == [value EXCEPT !.text = removeWhiteSpaces(value)]

\* inputRowValue = hooks_->removeWhiteSpaces(inputRowValue), for the targets
\* it is done for.
stripIfFixedWidth(value) ==
    IF isPrimitiveFixedWidth(toKind)
    THEN [value EXCEPT !.text = removeWhiteSpaces(value)]
    ELSE value

\* A check that does not look at the policy.
unicodeCheckFailsAnyPolicy(value) == toKind \in IntegerKinds /\ ~value.isAscii

\* The check of a string on its way to an integer type.
unicodeCheckFails(value) ==
    /\ toKind \in IntegerKinds
    /\ throwOnUnicode(policy)
    /\ ~value.isAscii

\* applyCastKernel's lambda setResultOrError.
setResultOrError(castResult, row, k) ==
    IF castResult.tag = "error"
    THEN setError(castResult.payload, row, k)
    ELSE setValue(k, row, castResult.payload)

\* The kernel for one row.  k holds the input, the result, the context's
\* errors, wrapException and the exception in flight (raised); an exception
\* that leaves the kernel is left in raised.
applyCastKernel(row, k) ==
    LET inputRowValue == k.input[row]
        entered == [k EXCEPT !.wrapException = TRUE, !.raised = NoException]
        local ==
            IF fromKind \in StringKinds THEN stripIfFixedWidth(inputRowValue)
            ELSE inputRowValue
        called == call(row, local, entered)
        castResult == inputRowValue.converts
        viaHook ==
            IF called.raised # NoException THEN called
            ELSE setResultOrError(castResult, row, called)
        viaDoubleHook ==
            IF called.raised # NoException THEN called
            ELSE IF castResult.tag = "error"
                 THEN setError(castResult.payload, row, called)
                 ELSE IF castResult.tag = "value"
                      THEN setValue(called, row, castResult.payload)
                      ELSE setNull(called, row)
        viaConverter ==
            IF called.raised # NoException THEN called
            ELSE IF castResult.tag = "error"
                 THEN setError(castResult.payload, row, called)
                 ELSE setValue(called, row, castResult.payload)
        fromString ==
            IF /\ isPrimitiveFixedWidth(toKind)
               /\ local.text = ""
            THEN setError("Empty string", row, entered)
            ELSE IF toKind \in {"TIMESTAMP", "REAL", "DOUBLE"} THEN viaHook
            ELSE IF unicodeCheckFails(local)
                 THEN [entered EXCEPT !.raised = Exception(
                         "VeloxUserError",
                         "Unicode characters are not supported for conversion to integer types")]
                 ELSE viaConverter
        tried ==
            CASE fromKind \in IntegerKinds \ {"HUGEINT"} /\ toKind = "TIMESTAMP" -> viaHook
              [] fromKind = "BOOLEAN" /\ toKind = "TIMESTAMP" -> viaHook
              [] toKind \in IntegerKinds \ {"HUGEINT"} /\ fromKind = "TIMESTAMP" -> viaHook
              [] fromKind \in {"DOUBLE", "REAL"} /\ toKind = "TIMESTAMP" -> viaDoubleHook
              [] fromKind \in StringKinds -> fromString
              [] OTHER -> viaConverter
        handled == [tried EXCEPT !.raised = NoException]
    IN  IF tried.raised = NoException THEN tried
        ELSE IF isVeloxException(tried.raised)
             THEN IF ~isUserError(tried.raised) \/ ~tried.wrapException
                  THEN tried
                  ELSE setError(tried.raised.message, row, handled)
             ELSE setError(tried.raised.message, row, handled)

\* The exception in flight is caught.
caught(ran) == [ran EXCEPT !.raised = NoException]

\* applyToSelectedNoThrowLocal's callback for one row, once func(row) has run
\* and left ran.
noThrowLocal(row, ran) ==
    IF ran.raised = NoException THEN ran
    ELSE IF isVeloxException(ran.raised)
         THEN IF ~isUserError(ran.raised) THEN ran
              ELSE IF setNullInResultAtError THEN setNull(caught(ran), row)
                   ELSE setVeloxExceptionError(caught(ran), row, ran.raised)
         ELSE IF setNullInResultAtError THEN setNull(caught(ran), row)
              ELSE setContextError(caught(ran), row, ran.raised)

\* applyToSelectedNoThrowLocal's callback for one row, with func the
\* primitive kernel.
applyToSelectedNoThrowLocal(row, k) == noThrowLocal(row, applyCastKernel(row, k))

\* applyCastPrimitives is entered, on a result vector that ensureWritable has
\* sized and a selection of the batch's rows.
ApplyCastPrimitives(kinds, castPolicy, try, capture, selected) ==
    /\ castPc = "idle"
    /\ castPc' = "casting"
    /\ fromKind' = kinds[1]
    /\ toKind' = kinds[2]
    /\ policy' = castPolicy
    /\ setNullInResultAtError' = try
    /\ captureErrorDetails' = capture
    /\ selectedRows' = selected
    /\ inputVector' = [i \in 1..MaxRows |-> Unread]
    /\ resultVector' = [i \in 1..MaxRows |-> Unset]
    /\ contextErrors' = [i \in 1..MaxRows |-> NoError]
    /\ escaped' = NoException
    /\ converterInput' = [i \in 1..MaxRows |-> NotCalled]
    /\ kernel' = "primitive"
    /\ UNCHANGED <<truncate, fromScale, firstPass, stringBuffer>>
    /\ UNCHANGED compilerVars

\* rows.applyToSelected's next row.
nextRow == CHOOSE i \in selectedRows : \A o \in selectedRows : i <= o

\* StringView::kInlineSize and StringView::isInline.
kInlineSize == 12
isInline(size) == size <= kInlineSize

\* DecimalUtil::maxStringViewSize: the digits and the sign, a dot if there
\* is a fraction, and a leading zero if there is no integral digit.
maxStringViewSize(precision, scale) ==
    precision + 1 + (IF scale > 0 THEN 1 ELSE 0)
      + (IF precision = scale THEN 1 ELSE 0)

\* A row's StringView: the bytes of the string buffer it points at, if it
\* is not inline.
NoView == [written |-> FALSE, at |-> 0, size |-> 0]
View(at, size) == [written |-> TRUE, at |-> at, size |-> size]

\* applyDecimalToVarcharCast from its rowSize to its loop, on a result vector
\* whose string buffer holds size bytes: start and rawBuffer are offsets from
\* buffer->asMutable<char>().
decimalToVarcharEnter(rowSize, countSelected, size) ==
    [rowSize |-> rowSize,
     reserved |-> IF isInline(rowSize) THEN 0 ELSE countSelected * rowSize,
     start |-> size, rawBuffer |-> size, size |-> size,
     views |-> [i \in 1..MaxRows |-> NoView]]

\* applyDecimalToVarcharCast after its loop.
decimalToVarcharReturn(buffer) ==
    IF isInline(buffer.rowSize) THEN buffer
    ELSE [buffer EXCEPT !.size = buffer.rawBuffer]

\* The vectors and the context as the callback of a row finds them, with
\* value what the input vector holds for the row.
Reading(row, value) ==
    [input |-> [inputVector EXCEPT ![row] = value],
     result |-> resultVector, errors |-> contextErrors,
     wrapException |-> TRUE, raised |-> NoException, handed |-> converterInput,
     buffer |-> stringBuffer]

\* A loop that ends at the first row with a recorded error.
RowDoneStopsAtError(row, ran) ==
    /\ inputVector' = ran.input
    /\ resultVector' = ran.result
    /\ contextErrors' = ran.errors
    /\ escaped' = ran.raised
    /\ converterInput' = ran.handed
    /\ stringBuffer' = ran.buffer
    /\ selectedRows' = selectedRows \ {row}
    /\ castPc' = IF ran.raised # NoException THEN "thrown"
                 ELSE IF ran.errors[row].set THEN "returned" ELSE "casting"

\* The callback of a row has run and left ran: the loop goes on, or the
\* exception leaves the call.
RowDone(row, ran) ==
    /\ inputVector' = ran.input
    /\ resultVector' = ran.result
    /\ contextErrors' = ran.errors
    /\ escaped' = ran.raised
    /\ converterInput' = ran.handed
    /\ stringBuffer' = ran.buffer
    /\ selectedRows' = selectedRows \ {row}
    /\ castPc' = IF ran.raised = NoException THEN "casting" ELSE "thrown"

\* The next selected row is processed; value is what the input vector holds
\* for it.
CastRow(value) ==
    /\ castPc = "casting"
    /\ selectedRows # {}
    /\ RowDone(nextRow, applyToSelectedNoThrowLocal(nextRow, Reading(nextRow, value)))
    /\ UNCHANGED <<fromKind, toKind, policy, setNullInResultAtError,
                   captureErrorDetails, kernel, truncate, fromScale, firstPass>>
    /\ UNCHANGED compilerVars

CastReturn ==
    /\ castPc = "casting"
    /\ selectedRows = {}
    /\ castPc' = "returned"
    /\ stringBuffer' = IF kernel = "applyDecimalToVarcharCast"
                       THEN decimalToVarcharReturn(stringBuffer)
                       ELSE stringBuffer
    /\ UNCHANGED <<fromKind, toKind, policy, setNullInResultAtError,
                   captureErrorDetails, selectedRows, inputVector, resultVector,
                   contextErrors, escaped, converterInput, kernel, truncate,
                   fromScale, firstPass>>
    /\ UNCHANGED compilerVars

CastNext ==
    \/ \E kinds \in KernelKinds, castPolicy \in CastPolicies,
          try \in BOOLEAN, capture \in BOOLEAN,
          selected \in SUBSET (1..MaxRows) :
            ApplyCastPrimitives(kinds, castPolicy, try, capture, selected)
    \/ \E value \in RowValues(fromKind, toKind) : CastRow(value)
    \/ CastReturn

CastSpec == Init /\ [][CastNext]_vars

-----------------------------------------------------------------------------
(* The decimal cast kernels.  A DECIMAL value is its unscaled integer; the *)
(* row value of the decimal-to-integral kernel carries it in converts, and *)
(* the row values of the other kernels carry what the DecimalUtil function *)
(* or the converter of the kernel makes of them.                           *)

\* The bits of the integral target types that are checked.
Width(kind) == IF kind = "TINYINT" THEN 8 ELSE 16

\* std::numeric_limits<To>::max() and min().
numericMax(kind) == 2^(Width(kind) - 1) - 1
numericMin(kind) == -(2^(Width(kind) - 1))

\* static_cast<To>(v): v modulo 2^w, in To's range.
staticCast(kind, v) ==
    ((v + 2^(Width(kind) - 1)) % 2^Width(kind)) - 2^(Width(kind) - 1)

\* DecimalUtil::kPowersOfTen[scale].
kPowersOfTen(scale) == 10^scale

\* The integer division and remainder of C++: the quotient is truncated
\* toward zero and the remainder has the sign of the dividend.
quotient(n, d) == IF n >= 0 THEN n \div d ELSE -((-n) \div d)
remainder(n, d) == n - d * quotient(n, d)

\* fmt::format's result: the pieces, joined.
RECURSIVE format(_)
format(pieces) ==
    IF Len(pieces) = 0 THEN "" ELSE Head(pieces) \o format(Tail(pieces))

\* The digits of a fraction, with leading zeros up to the scale.
RECURSIVE padded(_, _)
padded(digits, scale) ==
    IF Len(digits) >= scale THEN digits ELSE padded("0" \o digits, scale)

magnitude(v) == IF v >= 0 THEN v ELSE -v

\* The digits before and after the dot, of the unscaled value's digits.
integralDigits(digits, scale) ==
    IF Len(digits) > scale THEN SubSeq(digits, 1, Len(digits) - scale) ELSE "0"
fractionDigits(digits, scale) ==
    IF Len(digits) > scale
    THEN SubSeq(digits, Len(digits) - scale + 1, Len(digits))
    ELSE padded(digits, scale)

\* input.toString(row) of a DECIMAL vector.
decimalToString(v, scale) ==
    IF scale = 0 THEN ToString(v)
    ELSE (IF v < 0 THEN "-" ELSE "")
           \o integralDigits(ToString(magnitude(v)), scale)
           \o "."
           \o fractionDigits(ToString(magnitude(v)), scale)

\* DecimalType::toString().
decimalType(precision, scale) ==
    "DECIMAL(" \o ToString(precision) \o ", " \o ToString(scale) \o ")"

\* A row of a DECIMAL input vector.
DecimalValue(v, scale) ==
    RowValue(decimalToString(v, scale), decimalToString(v, scale), TRUE, Returns(v))

\* makeBadCastException: the user exception it makes.
makeBadCastException(resultType, fromType, text, errorDetails) ==
    Exception("VeloxUserError",
              format(makeErrorMessage(fromType, text, resultType, errorDetails)))

\* An exception of the row's function is in flight.
raise(k, outcome) == [k EXCEPT !.raised = Exception(outcome.tag, outcome.payload)]

\* applyDecimalCastKernel's callback, with status what rescaleWithRoundUp
\* returns for the row.
decimalCastRow(row, k, status) ==
    CASE status.tag = "value" -> setValue(k, row, status.payload)
      [] status.tag = "error" ->
           IF setNullInResultAtError THEN setNull(k, row)
           ELSE setVeloxExceptionError(
                  k, row, Exception("VeloxUserError", status.payload))
      [] OTHER -> raise(k, status)

\* A callback that follows the error policy when rescaleInt returns no value.
intToDecimalRowByPolicy(row, k, rescaledValue) ==
    CASE rescaledValue.tag = "value" -> setValue(k, row, rescaledValue.payload)
      [] rescaledValue.tag = "nullopt" ->
           IF setNullInResultAtError THEN setNull(k, row)
           ELSE setVeloxExceptionError(
                  k, row,
                  makeBadCastException(toKind, fromKind, k.input[row].text,
                                       "Out of bounds."))
      [] OTHER -> raise(k, rescaledValue)

\* applyIntToDecimalCastKernel's callback, with rescaledValue what rescaleInt
\* returns for the row.
intToDecimalRow(row, k, rescaledValue) ==
    CASE rescaledValue.tag = "value" -> setValue(k, row, rescaledValue.payload)
      [] rescaledValue.tag = "nullopt" -> setNull(k, row)
      [] OTHER -> raise(k, rescaledValue)

\* A callback that nulls the failing row in a strict cast too.
toDecimalRowAlwaysNull(row, k, status) ==
    CASE status.tag = "value" -> setValue(k, row, status.payload)
      [] status.tag = "error" -> setNull(k, row)
      [] OTHER -> raise(k, status)

\* The callback of applyFloatingPointToDecimalCastKernel and of
\* applyVarcharToDecimalCastKernel, with status what rescaleFloatingPoint or
\* castFromString returns for the row.
toDecimalRow(row, k, status) ==
    CASE status.tag = "value" -> setValue(k, row, status.payload)
      [] status.tag = "error" ->
           IF setNullInResultAtError THEN setNull(k, row)
           ELSE setVeloxExceptionError(
                  k, row,
                  makeBadCastException(toKind, fromKind, k.input[row].text,
                                       status.payload))
      [] OTHER -> raise(k, status)

\* applyDecimalToFloatCast's callback, with castResult what the converter
\* returns for the row.
decimalToFloatRow(row, k, castResult) ==
    CASE castResult.tag = "value" ->
           setValue(k, row, <<castResult.payload, "/", kPowersOfTen(fromScale)>>)
      [] castResult.tag = "error" ->
           [k EXCEPT !.raised = Exception("VeloxUserError", castResult.payload)]
      [] OTHER -> raise(k, castResult)

\* A rounding that is half up, whatever the sign.
needsRoundUpUnsigned(value, scaleFactor) ==
    scaleFactor # 1 /\ remainder(value, scaleFactor) >= scaleFactor \div 2

\* applyDecimalToIntegralCast's needsRoundUp.
needsRoundUp(value, scaleFactor) ==
    /\ scaleFactor # 1
    /\ (IF value >= 0 THEN 1 ELSE -1) * remainder(value, scaleFactor)
         >= scaleFactor \div 2

\* applyDecimalToIntegralCast's integralPart before the bounds check.
integralPartOf(value, scaleFactor) ==
    IF policy # "SparkTryCastPolicy" /\ needsRoundUp(value, scaleFactor)
    THEN quotient(value, scaleFactor) + (IF value >= 0 THEN 1 ELSE -1)
    ELSE quotient(value, scaleFactor)

\* A bounds check that misses the lower bound.
outOfBoundsAbove(integralPart) == integralPart > numericMax(toKind)

\* applyDecimalToIntegralCast's bounds check.
outOfBounds(integralPart) ==
    integralPart > numericMax(toKind) \/ integralPart < numericMin(toKind)

\* applyDecimalToIntegralCast's callback when truncate() is false, from the
\* bounds check on.
boundsChecked(row, k, integralPart) ==
    IF outOfBounds(integralPart)
    THEN IF setNullInResultAtError THEN setNull(k, row)
         ELSE setVeloxExceptionError(
                k, row,
                makeBadCastException(
                  toKind, fromKind, k.input[row].text,
                  format(makeErrorMessage(fromKind, k.input[row].text, toKind, ""))
                    \o "Out of bounds."))
    ELSE setValue(k, row, staticCast(toKind, integralPart))

\* applyDecimalToIntegralCast's callbacks.
decimalToIntegralRow(row, k, value) ==
    IF truncate
    THEN setValue(k, row, staticCast(toKind, quotient(value, kPowersOfTen(fromScale))))
    ELSE boundsChecked(row, k, integralPartOf(value, kPowersOfTen(fromScale)))

\* applyDecimalToBooleanCast's callback.
decimalToBooleanRow(row, k, value) == setValue(k, row, value # 0)

\* A write pointer that moves past every text.
advanceAlways(rawBuffer, actualSize) == rawBuffer + actualSize

\* The write pointer after a row's text of actualSize bytes.
advance(rawBuffer, actualSize) ==
    IF ~isInline(actualSize) THEN rawBuffer + actualSize ELSE rawBuffer

\* The callback that writes into the string buffer: the row's view is at
\* rawBuffer.
writeToBuffer(k, row, actualSize) ==
    [k EXCEPT !.buffer.views[row] = View(k.buffer.rawBuffer, actualSize),
              !.buffer.rawBuffer = advance(k.buffer.rawBuffer, actualSize)]

\* applyDecimalToVarcharCast's callbacks.
decimalToVarcharRow(row, k, value) ==
    IF isInline(k.buffer.rowSize)
    THEN setValue(k, row, decimalToString(value, fromScale))
    ELSE writeToBuffer(setValue(k, row, decimalToString(value, fromScale)),
                       row, Len(decimalToString(value, fromScale)))

\* The kernel's pass over one row: its callback under
\* applyToSelectedNoThrowLocal, or under rows.applyToSelected alone for the
\* kernel of VARCHAR to DECIMAL.
decimalKernelRow(row, k) ==
    CASE kernel = "applyDecimalCastKernel" ->
           noThrowLocal(row, decimalCastRow(row, k, k.input[row].converts))
      [] kernel = "applyIntToDecimalCastKernel" ->
           noThrowLocal(row, intToDecimalRow(row, k, k.input[row].converts))
      [] kernel = "applyFloatingPointToDecimalCastKernel" ->
           noThrowLocal(row, toDecimalRow(row, k, k.input[row].converts))
      [] kernel = "applyVarcharToDecimalCastKernel" ->
           toDecimalRow(row, k, k.input[row].converts)
      [] kernel = "applyDecimalToFloatCast" ->
           noThrowLocal(row, decimalToFloatRow(row, k, k.input[row].converts))
      [] kernel = "applyDecimalToIntegralCast" ->
           noThrowLocal(row, decimalToIntegralRow(row, k, k.input[row].converts.payload))
      [] kernel = "applyDecimalToBooleanCast" ->
           noThrowLocal(row, decimalToBooleanRow(row, k, k.input[row].converts.payload))
      [] OTHER ->
           noThrowLocal(row, decimalToVarcharRow(row, k, k.input[row].converts.payload))

DecimalKernel(name, from, to, scale) ==
    [kernel |-> name, from |-> from, to |-> to, scale |-> scale]

\* getDecimalPrecisionScale(*fromType).first, of the DECIMAL types that are
\* cast to VARCHAR.
precisionOf(type) == IF type = decimalType(20, 10) THEN 20 ELSE 5

\* The sizes of the result vector's string buffer when the kernel is entered.
BufferSizes == {0, 16}

\* The instantiations of the decimal kernels that are checked.
DecimalKernels ==
    {DecimalKernel("applyDecimalCastKernel", decimalType(5, 2), decimalType(4, 1), 2),
     DecimalKernel("applyIntToDecimalCastKernel", "BIGINT", decimalType(4, 1), 0),
     DecimalKernel("applyFloatingPointToDecimalCastKernel", "DOUBLE", decimalType(4, 1), 0),
     DecimalKernel("applyVarcharToDecimalCastKernel", "VARCHAR", decimalType(4, 1), 0),
     DecimalKernel("applyDecimalToFloatCast", decimalType(5, 2), "DOUBLE", 2),
     DecimalKernel("applyDecimalToBooleanCast", decimalType(5, 2), "BOOLEAN", 2),
     DecimalKernel("applyDecimalToVarcharCast", decimalType(5, 2), "VARCHAR", 2),
     DecimalKernel("applyDecimalToVarcharCast", decimalType(20, 10), "VARCHAR", 10)}
      \cup {DecimalKernel("applyDecimalToIntegralCast", decimalType(10, scale), to, scale) :
              scale \in {0, 2}, to \in {"TINYINT", "SMALLINT"}}

\* The unscaled values of the DECIMAL rows that are checked.
UnscaledValues == {0, 10049, 10050, -10050, 12750, -12850, 1234500}

\* The unscaled values of the DECIMAL(20, 10) rows: their texts have 12, 13
\* and 13 bytes.
LongTextValues == {10049, -10050, -12850}

\* The policies the decimal kernels are checked under: the kernels tell
\* SparkTryCastPolicy from every other policy.
DecimalPolicies == {"PrestoCastPolicy", "SparkCastPolicy", "SparkTryCastPolicy"}

\* What hooks_->truncate() can return under a policy: the hooks of the Spark
\* policies truncate if asked, the others never do.
truncateOf(castPolicy) ==
    IF castPolicy \in {"SparkCastPolicy", "SparkTryCastPolicy"} THEN BOOLEAN ELSE {FALSE}

\* The values a row of the input vector can hold, for a decimal kernel.
DecimalRowValues(name, scale) ==
    CASE name = "applyDecimalToVarcharCast" /\ scale = 10 ->
           {DecimalValue(v, scale) : v \in LongTextValues}
      [] name \in {"applyDecimalToIntegralCast", "applyDecimalToBooleanCast",
                   "applyDecimalToVarcharCast"} ->
           {DecimalValue(v, scale) : v \in UnscaledValues}
      [] name = "applyIntToDecimalCastKernel" ->
           {RowValue("12345", "12345", TRUE, conv) :
              conv \in (Conversions \ {ReturnsError("bad value")}) \cup {ReturnsNullopt}}
      [] name \in {"applyDecimalCastKernel", "applyDecimalToFloatCast"} ->
           {RowValue("123.45", "123.45", TRUE, conv) : conv \in Conversions}
      [] OTHER ->
           {RowValue(" 1e9 ", "1e9", TRUE, conv) : conv \in Conversions}

\* A decimal kernel is entered, on a result vector that ensureWritable has
\* sized (and clearNulls has cleared) and a selection of the batch's rows.
ApplyDecimalCast(config, castPolicy, try, capture, truncating, selected) ==
    /\ castPc = "idle"
    /\ castPc' = "casting"
    /\ kernel' = config.kernel
    /\ fromKind' = config.from
    /\ toKind' = config.to
    /\ fromScale' = config.scale
    /\ policy' = castPolicy
    /\ setNullInResultAtError' = try
    /\ captureErrorDetails' = capture
    /\ truncate' = truncating
    /\ selectedRows' = selected
    /\ inputVector' = [i \in 1..MaxRows |-> Unread]
    /\ resultVector' = [i \in 1..MaxRows |-> Unset]
    /\ contextErrors' = [i \in 1..MaxRows |-> NoError]
    /\ escaped' = NoException
    /\ converterInput' = [i \in 1..MaxRows |-> NotCalled]
    /\ IF config.kernel = "applyDecimalToVarcharCast"
       THEN \E size \in BufferSizes :
              stringBuffer' = decimalToVarcharEnter(
                                maxStringViewSize(precisionOf(config.from),
                                                  config.scale),
                                Cardinality(selected), size)
       ELSE UNCHANGED stringBuffer
    /\ UNCHANGED firstPass
    /\ UNCHANGED compilerVars

\* The next selected row of a decimal kernel is processed; value is what the
\* input vector holds for it.
DecimalRow(value) ==
    /\ castPc = "casting"
    /\ kernel # "primitive"
    /\ selectedRows # {}
    /\ RowDone(nextRow, decimalKernelRow(nextRow, Reading(nextRow, value)))
    /\ UNCHANGED <<fromKind, toKind, policy, setNullInResultAtError,
                   captureErrorDetails, kernel, truncate, fromScale, firstPass>>
    /\ UNCHANGED compilerVars

DecimalNext ==
    \/ \E config \in DecimalKernels, castPolicy \in DecimalPolicies,
          try \in BOOLEAN, capture \in BOOLEAN,
          selected \in SUBSET (1..MaxRows) :
       \E truncating \in truncateOf(castPolicy) :
            ApplyDecimalCast(config, castPolicy, try, capture, truncating, selected)
    \/ \E value \in DecimalRowValues(kernel, fromScale) : DecimalRow(value)
    \/ CastReturn

DecimalSpec == Init /\ [][DecimalNext]_vars

\* Every kernel, on every selection, in a context that captures the details
\* of errors.
KernelsNext ==
    \/ \E kinds \in KernelKinds, castPolicy \in CastPolicies, try \in BOOLEAN,
          selected \in SUBSET (1..MaxRows) :
            ApplyCastPrimitives(kinds, castPolicy, try, TRUE, selected)
    \/ \E config \in DecimalKernels, castPolicy \in DecimalPolicies, try \in BOOLEAN,
          selected \in SUBSET (1..MaxRows) :
       \E truncating \in truncateOf(castPolicy) :
            ApplyDecimalCast(config, castPolicy, try, TRUE, truncating, selected)
    \/ \E value \in RowValues(fromKind, toKind) : kernel = "primitive" /\ CastRow(value)
    \/ \E value \in DecimalRowValues(kernel, fromScale) : DecimalRow(value)
    \/ CastReturn

KernelsSpec == Init /\ [][KernelsNext]_vars

-----------------------------------------------------------------------------
(* tryCast(x, T) and cast(x, T) on the same input: a kernel casts a batch  *)
(* in try mode, and then casts the rows it has read again in strict mode.  *)

\* The rows of the input vector that have been read.
ReadRows == {r \in 1..Len(inputVector) : inputVector[r] # Unread}

\* The strict cast of the rows the try-cast has read is entered, on a fresh
\* result vector and context.
CastAgain ==
    /\ castPc \in {"returned", "thrown"}
    /\ firstPass = <<>>
    /\ setNullInResultAtError
    /\ firstPass' = <<[result |-> resultVector, errors |-> contextErrors,
                       escaped |-> escaped]>>
    /\ setNullInResultAtError' = FALSE
    /\ castPc' = "casting"
    /\ selectedRows' = ReadRows
    /\ resultVector' = [i \in 1..MaxRows |-> Unset]
    /\ contextErrors' = [i \in 1..MaxRows |-> NoError]
    /\ escaped' = NoException
    /\ converterInput' = [i \in 1..MaxRows |-> NotCalled]
    /\ stringBuffer' = IF kernel = "applyDecimalToVarcharCast"
                       THEN decimalToVarcharEnter(stringBuffer.rowSize,
                                                  Cardinality(ReadRows),
                                                  stringBuffer.size)
                       ELSE stringBuffer
    /\ UNCHANGED <<fromKind, toKind, policy, captureErrorDetails, inputVector,
                   kernel, truncate, fromScale>>
    /\ UNCHANGED compilerVars

\* A row of the first cast is processed.
FirstCastRow(value) ==
    /\ firstPass = <<>>
    /\ kernel = "primitive"
    /\ CastRow(value)

FirstDecimalRow(value) ==
    /\ firstPass = <<>>
    /\ DecimalRow(value)

\* A row of the second cast is processed: the input vector holds what the
\* first cast has read.
SecondRow ==
    /\ firstPass # <<>>
    /\ selectedRows # {}
    /\ IF kernel = "primitive"
       THEN CastRow(inputVector[nextRow])
       ELSE DecimalRow(inputVector[nextRow])

ModesNext ==
    \/ \E kinds \in KernelKinds, castPolicy \in CastPolicies, capture \in BOOLEAN :
          ApplyCastPrimitives(kinds, castPolicy, TRUE, capture, 1..MaxRows)
    \/ \E config \in DecimalKernels, castPolicy \in DecimalPolicies,
          capture \in BOOLEAN :
       \E truncating \in truncateOf(castPolicy) :
            ApplyDecimalCast(config, castPolicy, TRUE, capture, truncating, 1..MaxRows)
    \/ \E value \in RowValues(fromKind, toKind) : FirstCastRow(value)
    \/ \E value \in DecimalRowValues(kernel, fromScale) : FirstDecimalRow(value)
    \/ SecondRow
    \/ CastAgain
    \/ CastReturn

ModesSpec == Init /\ [][ModesNext]_vars

-----------------------------------------------------------------------------
(* Properties of compileExpressions.  log holds one entry per call of      *)
(* compileRewrittenExpression that returned: the Scope and the expression  *)
(* it was called with, the node its switch built and the node it returned. *)

Range(f) == {f[i] : i \in DOMAIN f}

NoDuplicates(f) == \A p, q \in DOMAIN f : f[p] = f[q] => p = q

\* The node a Scope holds for an expression its compileExpression was called
\* with.
CompiledIn(scope, expr) == scopes[scope].visited[rewriteExpression(expr)]

(* C1: within one Scope, two compilations of structurally equal            *)
(* expressions return the same node: the later call returns the node the   *)
(* first one produced, and that node is flagged as multiply referenced.    *)
C1_CseSoundness ==
    \A p, q \in 1..Len(log) :
       (p < q /\ log[p].scope = log[q].scope /\ log[p].expr = log[q].expr)
         => /\ log[q].ret = log[p].ret
            /\ log[q].how = "hit"
            /\ heap[log[q].ret].isMultiplyReferenced

\* An expression has been compiled a second time in the Scope that had built
\* a node for it.
C1_Witness ==
    \E p, q \in 1..Len(log) :
       /\ p < q
       /\ log[p].scope = log[q].scope
       /\ log[p].expr = log[q].expr
       /\ log[p].how # "hit"
       /\ log[q].how = "hit"

(* C2: a node compiled in one Scope is never returned for an expression    *)
(* compiled in another Scope: no node is in the visited map of two Scopes, *)
(* and every call returns a node of the Scope it was called in, even when  *)
(* the other Scope holds a structurally equal expression.                  *)
C2_CseScopeLocal ==
    /\ \A s, t \in 1..Len(scopes) :
          s # t => Range(scopes[s].visited) \cap Range(scopes[t].visited) = {}
    /\ \A p \in 1..Len(log) :
          \A t \in 1..Len(scopes) :
             t # log[p].scope => log[p].ret \notin Range(scopes[t].visited)

\* A lambda body and the Scope around it hold the same expression, each with
\* a node of its own.
C2_Witness ==
    \E s, t \in 1..Len(scopes) :
       /\ scopes[t].parent = s
       /\ scopes[t].closed
       /\ \E e \in DOMAIN scopes[s].visited \cap DOMAIN scopes[t].visited :
             scopes[s].visited[e] # scopes[t].visited[e]

\* The input columns an expression reads that no lambda inside it declares.
RECURSIVE FreeColumns(_)
FreeColumns(e) ==
    IF e.kind = "FieldAccess" /\ isInputColumn(e) THEN {e.name}
    ELSE IF e.kind = "Lambda" THEN FreeColumns(e.body[1]) \ Range(e.params)
    ELSE UNION {FreeColumns(e.inputs[i]) : i \in 1..Len(e.inputs)}

\* Every input column an expression reads, lambda bodies included.
RECURSIVE AllColumns(_)
AllColumns(e) ==
    IF e.kind = "FieldAccess" /\ isInputColumn(e) THEN {e.name}
    ELSE IF e.kind = "Lambda" THEN AllColumns(e.body[1])
    ELSE UNION {AllColumns(e.inputs[i]) : i \in 1..Len(e.inputs)}

(* C3: once a lambda is compiled, its Scope's capture list holds exactly   *)
(* the columns the lambda reads and no Scope between the reference and the *)
(* declaring Scope declares, each of them once; it is empty when the body  *)
(* reads only the lambda's own parameters; the three capture lists are     *)
(* aligned; and the top-level Scope captures nothing.                      *)
C3_CaptureMinimality ==
    \A s \in 1..Len(scopes) :
       /\ scopes[s].parent = 0 => scopes[s].capture = <<>>
       /\ Len(scopes[s].captureReferences) = Len(scopes[s].capture)
       /\ Len(scopes[s].captureFieldAccesses) = Len(scopes[s].capture)
       /\ scopes[s].closed =>
             /\ Range(scopes[s].capture) = FreeColumns(scopes[s].lambda[1])
             /\ NoDuplicates(scopes[s].capture)
             /\ AllColumns(scopes[s].lambda[1].body[1])
                    \subseteq Range(scopes[s].lambda[1].params)
                  => scopes[s].capture = <<>>

\* A lambda inside a lambda reads the outer parameter and an input column:
\* the inner Scope captures both, the outer Scope the column only.
C3_Witness ==
    \E s, t \in 1..Len(scopes) :
       /\ scopes[s].closed /\ scopes[t].closed
       /\ scopes[t].parent = s
       /\ scopes[s].parent # 0
       /\ Range(scopes[t].capture) = {"k", "x"}
       /\ Range(scopes[s].capture) = {"x"}

\* The inputs of a nested call tree: every subtree that is not itself a call
\* of 'name', left to right.
RECURSIVE MaximalOperands(_, _), MaximalOperandsOfAll(_, _)
MaximalOperands(e, name) ==
    IF isCall(e, name) THEN MaximalOperandsOfAll(e.inputs, name) ELSE <<e>>

MaximalOperandsOfAll(es, name) ==
    IF es = <<>> THEN <<>>
    ELSE MaximalOperands(Head(es), name) \o MaximalOperandsOfAll(Tail(es), name)

MutuallyEquivalent(es) ==
    \A p, q \in 1..Len(es) : equivalent(es[p].type, es[q].type)

\* The same, where a call of 'name' whose inputs are not mutually
\* type-equivalent counts as one operand.
RECURSIVE EquivalentOperands(_, _), EquivalentOperandsOfAll(_, _)
EquivalentOperands(e, name) ==
    IF isCall(e, name) /\ MutuallyEquivalent(e.inputs)
    THEN EquivalentOperandsOfAll(e.inputs, name)
    ELSE <<e>>

EquivalentOperandsOfAll(es, name) ==
    IF es = <<>> THEN <<>>
    ELSE EquivalentOperands(Head(es), name) \o EquivalentOperandsOfAll(Tail(es), name)

\* The nodes are the compiled forms, in the Scope, of the operands in order.
CompiledFormsOf(ids, operands, scope) ==
    /\ Len(ids) = Len(operands)
    /\ \A i \in 1..Len(operands) :
          /\ rewriteExpression(operands[i]) \in DOMAIN scopes[scope].visited
          /\ ids[i] = CompiledIn(scope, operands[i])

IsAndOr(e) == e.kind = "Call" /\ e.name \in {"and", "or"}

(* C4 as stated: the node built for a nested tree of 'and' ('or') calls is *)
(* one 'and' ('or') special form whose inputs are the compiled forms of    *)
(* all the maximal subtrees that are not 'and' ('or') calls, in order.     *)
C4_AsStated ==
    \A p \in 1..Len(log) :
       (IsAndOr(log[p].expr) /\ log[p].how # "hit")
         => /\ heap[log[p].built].kind = "SpecialForm"
            /\ heap[log[p].built].name = log[p].expr.name
            /\ CompiledFormsOf(
                  heap[log[p].built].inputs,
                  MaximalOperandsOfAll(log[p].expr.inputs, log[p].expr.name),
                  log[p].scope)

(* C4: the node built for a nested tree of 'and' ('or') calls is one 'and' *)
(* ('or') special form whose inputs are, in order, the compiled forms of   *)
(* the maximal subtrees that are not 'and' ('or') calls with mutually      *)
(* type-equivalent inputs: a nested call whose inputs are not mutually     *)
(* type-equivalent stays one input.  This holds whether or not the         *)
(* registry declares the name as supporting flattening.                    *)
C4_FlatteningFidelity ==
    \A p \in 1..Len(log) :
       (IsAndOr(log[p].expr) /\ log[p].how # "hit")
         => /\ heap[log[p].built].kind = "SpecialForm"
            /\ heap[log[p].built].name = log[p].expr.name
            /\ CompiledFormsOf(
                  heap[log[p].built].inputs,
                  EquivalentOperandsOfAll(log[p].expr.inputs, log[p].expr.name),
                  log[p].scope)

\* An 'or' nested on both sides has been compiled into one node of four
\* inputs, with no 'or' among the flattening candidates.
C4_Witness ==
    \E p \in 1..Len(log) :
       /\ log[p].expr = Or(Or(colA, colB), Or(colC, colD))
       /\ Len(heap[log[p].built].inputs) = 4
       /\ "or" \notin flatteningCandidates

\* The registry declares the function as supporting flattening.
SupportsFlattening(name) ==
    /\ name \in DOMAIN VectorFunctionMap
    /\ VectorFunctionMap[name].supportsFlattening

(* C5: for a call of a function f that the registry declares as            *)
(* supporting flattening, the compiled node's inputs are the compiled      *)
(* forms of the flattened operands when all inputs of the call are         *)
(* type-equivalent (nested calls of f being spliced under the same         *)
(* condition), and of the call's own inputs otherwise.                     *)
C5_RegistryFlattening ==
    \A p \in 1..Len(log) :
       (/\ log[p].expr.kind = "Call"
        /\ ~IsAndOr(log[p].expr)
        /\ SupportsFlattening(log[p].expr.name)
        /\ log[p].how # "hit")
         => CompiledFormsOf(
              heap[log[p].built].inputs,
              IF MutuallyEquivalent(log[p].expr.inputs)
              THEN EquivalentOperandsOfAll(log[p].expr.inputs, log[p].expr.name)
              ELSE log[p].expr.inputs,
              log[p].scope)

(* C6: a Cast whose target type equals the type of its compiled child      *)
(* compiles to the child's node itself, whatever the try flag: no 'cast'   *)
(* or 'try_cast' node over the child exists and the Scope maps the Cast to *)
(* the child's node.  Otherwise the node built is the special form         *)
(* 'try_cast' when the try flag is set and 'cast' when it is not.          *)
C6_CastIdentity ==
    \A p \in 1..Len(log) :
       (log[p].expr.kind = "Cast" /\ log[p].how # "hit")
         => LET e == log[p].expr
                s == log[p].scope
                built == log[p].built
            IN  /\ rewriteExpression(e.inputs[1]) \in DOMAIN scopes[s].visited
                /\ LET child == CompiledIn(s, e.inputs[1])
                   IN  IF e.type = heap[child].type
                       THEN /\ built = child
                            /\ log[p].ret = child
                            /\ scopes[s].visited[e] = child
                            /\ ~\E n \in 1..Len(heap) :
                                   /\ heap[n].kind = "SpecialForm"
                                   /\ heap[n].name \in {"cast", "try_cast"}
                                   /\ heap[n].inputs = <<child>>
                                   /\ heap[n].type = e.type
                       ELSE /\ built # child
                            /\ heap[built].kind = "SpecialForm"
                            /\ heap[built].name =
                                  (IF e.isTryCast THEN "try_cast" ELSE "cast")
                            /\ heap[built].type = e.type
                            /\ heap[built].inputs = <<child>>

\* A try-cast to the child's own type has returned the child's node.
C6_Witness ==
    \E p \in 1..Len(log) :
       /\ log[p].expr.kind = "Cast"
       /\ log[p].expr.isTryCast
       /\ log[p].how = "cast-identity"
       /\ log[p].ret = CompiledIn(log[p].scope, log[p].expr.inputs[1])

VectorResolves(name, types) ==
    /\ name \in DOMAIN VectorFunctionMap
    /\ \E i \in 1..Len(VectorFunctionMap[name].signatures) :
          SigMatches(VectorFunctionMap[name].signatures[i], types)

SimpleResolves(name, types) ==
    /\ name \in DOMAIN SimpleFunctionMap
    /\ \E i \in 1..Len(SimpleFunctionMap[name].signatures) :
          SigMatches(SimpleFunctionMap[name].signatures[i], types)

\* Every signature registered under a name: the vector function's, then the
\* simple function's.
RegisteredSignatures(name) ==
    (IF name \in DOMAIN VectorFunctionMap
     THEN VectorFunctionMap[name].signatures ELSE <<>>)
      \o (IF name \in DOMAIN SimpleFunctionMap
          THEN SimpleFunctionMap[name].signatures ELSE <<>>)

\* The compilation has failed in the call expression, with this message.
CallFailedWith(what) ==
    /\ pc = "thrown"
    /\ err.expr.kind = "Call"
    /\ err.what = what

(* C7: a call is resolved as a special form if its name is one, else as a  *)
(* vector function if one resolves for the name and the compiled inputs'   *)
(* types, else as a simple function if one resolves, and an earlier kind   *)
(* wins over a later one.  When none resolves the compilation fails with a *)
(* user error and no node for the call: the error lists every signature    *)
(* registered under the name in the vector and simple registries, or says  *)
(* that the name is not registered when there is none.                     *)
C7_ResolutionOrder ==
    /\ \A p \in 1..Len(log) :
          (log[p].expr.kind = "Call" /\ log[p].how # "hit")
            => LET name == log[p].expr.name
                   node == heap[log[p].built]
                   types == getTypes(node.inputs, heap)
               IN  IF name \in SpecialFormNames
                   THEN log[p].how = "special" /\ node.kind = "SpecialForm"
                   ELSE IF VectorResolves(name, types)
                   THEN log[p].how = "vector" /\ node.kind = "Expr"
                   ELSE /\ SimpleResolves(name, types)
                        /\ log[p].how = "simple" /\ node.kind = "Expr"
    /\ (\E what \in {IncompatibleReturnTypes, NameNotRegistered,
                      SignatureNotRegistered} : CallFailedWith(what))
         => LET name == err.expr.name
                types == getTypes(err.inputs, heap)
            IN  /\ name \notin SpecialFormNames
                /\ ~VectorResolves(name, types)
                /\ err.expr \notin DOMAIN scopes[err.scope].visited
                /\ err.kind = "user"
                /\ IF SimpleResolves(name, types)
                   THEN err.what = IncompatibleReturnTypes
                   ELSE IF RegisteredSignatures(name) = <<>>
                   THEN err.what = NameNotRegistered
                   ELSE /\ err.what = SignatureNotRegistered
                        /\ err.signatures = RegisteredSignatures(name)

\* A call of a name registered in both registries, with arguments neither
\* accepts, has failed with the signatures of both.
C7_Witness ==
    /\ CallFailedWith(SignatureNotRegistered)
    /\ err.name \in DOMAIN VectorFunctionMap \cap DOMAIN SimpleFunctionMap
    /\ Len(err.signatures) >= 2

\* The return type of the simple function that resolves.
SimpleReturnType(name, types) ==
    LET sigs == SimpleFunctionMap[name].signatures
    IN  sigs[CHOOSE i \in 1..Len(sigs) :
               /\ SigMatches(sigs[i], types)
               /\ \A q \in 1..(i - 1) : ~SigMatches(sigs[q], types)].ret

(* C8: when a call resolves to a simple function whose registered return   *)
(* type is not equivalent to the type the call declares, the compilation   *)
(* fails with a user error: no node for that call is created, cached or    *)
(* returned.  A node built from a simple function has a declared type      *)
(* equivalent to the registered one.                                       *)
C8_ReturnTypeMismatch ==
    /\ \A p \in 1..Len(log) :
          log[p].how = "simple"
            => equivalent(
                 log[p].expr.type,
                 SimpleReturnType(log[p].expr.name,
                                  getTypes(heap[log[p].built].inputs, heap)))
    /\ CallFailedWith(IncompatibleReturnTypes)
         => /\ err.kind = "user"
            /\ SimpleResolves(err.name, getTypes(err.inputs, heap))
            /\ ~equivalent(err.expr.type,
                           SimpleReturnType(err.name, getTypes(err.inputs, heap)))
            /\ err.expr \notin DOMAIN scopes[err.scope].visited
            /\ ~\E n \in 1..Len(heap) :
                   /\ heap[n].kind = "Expr"
                   /\ heap[n].name = err.name
                   /\ heap[n].type = err.expr.type
                   /\ heap[n].inputs = err.inputs
            /\ Len(exprs) < nextSource

\* A call declared BOOLEAN of a simple function that returns BIGINT has
\* failed.
C8_Witness ==
    /\ CallFailedWith(IncompatibleReturnTypes)
    /\ err.expr.type = "BOOLEAN"
    /\ SimpleReturnType(err.name, getTypes(err.inputs, heap)) = "BIGINT"

\* The node is one that tryFoldIfConstant evaluates.
Foldable(n) == ~isConstant(heap[n]) /\ isConstantExpr(heap[n], heap)

-----------------------------------------------------------------------------
(* Properties of the primitive cast kernel.                                *)

\* The rows the call has processed.
ProcessedRows == {r \in 1..Len(inputVector) : inputVector[r] # Unread}

\* The ways a row's conversion fails with a user error: the stripped string
\* is empty; a non-ASCII string meets throwOnUnicode; the hook or converter
\* that runs returns an error or throws a user exception.
EmptyStringCase(v) ==
    /\ fromKind \in StringKinds
    /\ isPrimitiveFixedWidth(toKind)
    /\ v.stripped = ""

UnicodeCase(v) ==
    /\ fromKind \in StringKinds
    /\ ~EmptyStringCase(v)
    /\ toKind \in IntegerKinds
    /\ throwOnUnicode(policy)
    /\ ~v.isAscii

ConversionFails(v) ==
    /\ ~EmptyStringCase(v)
    /\ ~UnicodeCase(v)
    /\ v.converts.tag \in {"error", "VeloxUserError"}

RowFails(v) == EmptyStringCase(v) \/ UnicodeCase(v) \/ ConversionFails(v)

FailureDetail(v) ==
    IF EmptyStringCase(v) THEN "Empty string"
    ELSE IF UnicodeCase(v)
         THEN "Unicode characters are not supported for conversion to integer types"
         ELSE v.converts.payload

(* C10: for a processed row whose conversion fails (the hook or converter  *)
(* returns an error, the stripped string is empty, or a user exception is  *)
(* thrown) no value is written, and: in a try-cast the row is null and the *)
(* context holds no error for it; otherwise the row is not null and the    *)
(* context holds a user-error status for it, whose message is              *)
(* makeErrorMessage(input, row, toType, detail) when captureErrorDetails() *)
(* is true and which has no message when it is false.                      *)
C10_ErrorMachine ==
    \A r \in ProcessedRows :
       RowFails(inputVector[r])
         => /\ ~resultVector[r].written
            /\ IF setNullInResultAtError
               THEN /\ resultVector[r].isNull
                    /\ ~contextErrors[r].set
               ELSE /\ ~resultVector[r].isNull
                    /\ contextErrors[r].set
                    /\ contextErrors[r].by = "setStatus"
                    /\ contextErrors[r].payload.code = "UserError"
                    /\ contextErrors[r].payload.message =
                         (IF captureErrorDetails
                          THEN makeErrorMessage(
                                 fromKind, inputVector[r].text, toKind,
                                 FailureDetail(inputVector[r]))
                          ELSE NoMessage)

\* A strict cast that captures details has recorded the user exception of
\* the unicode check for a row, after a row that failed in the converter.
C10_Witness ==
    /\ ~setNullInResultAtError
    /\ captureErrorDetails
    /\ \E r, q \in ProcessedRows :
          /\ q < r
          /\ ConversionFails(inputVector[q])
          /\ UnicodeCase(inputVector[r])
          /\ contextErrors[r].set
          /\ contextErrors[q].set

\* The conversion of the row runs and raises an error that is not a user
\* error: a VeloxException that is not a user error, or an exception that is
\* no VeloxException.
NonUserFailure(v) ==
    /\ ~EmptyStringCase(v)
    /\ ~UnicodeCase(v)
    /\ v.converts.tag \in {"VeloxRuntimeError", "std::exception"}

(* C11: a row whose conversion raises an error that is not a user error is *)
(* never set null and never gets a context error: the exception leaves the *)
(* call, and no later row of the selection is processed.                   *)
C11_NonUserErrorsPropagate ==
    \A r \in ProcessedRows :
       NonUserFailure(inputVector[r])
         => /\ ~resultVector[r].isNull
            /\ ~contextErrors[r].set
            /\ castPc = "thrown"
            /\ escaped = Exception(inputVector[r].converts.tag,
                                   inputVector[r].converts.payload)
            /\ \A q \in ProcessedRows : q <= r

\* The processed rows whose conversion fails with a user error.
FailingRows == {r \in ProcessedRows : RowFails(inputVector[r])}

\* The processed rows whose conversion the kernel handles as a failure: a
\* user error, or an exception that is no VeloxException.
HandledRows ==
    {r \in ProcessedRows :
       \/ RowFails(inputVector[r])
       \/ /\ NonUserFailure(inputVector[r])
          /\ inputVector[r].converts.tag = "std::exception"}

\* The processed rows for which the hook returns no value.
NoValueRows ==
    {r \in ProcessedRows \ HandledRows : inputVector[r].converts.tag = "nullopt"}

RecordsUserError(e) ==
    /\ e.set
    /\ CASE e.by = "setStatus" -> e.payload.code = "UserError"
         [] e.by = "setVeloxExceptionError" -> isUserError(e.payload)
         [] OTHER -> FALSE

-----------------------------------------------------------------------------
(* Properties of the decimal kernels.                                      *)

\* The rows of a DECIMAL to integral cast that have been processed.
IntegralRows ==
    {r \in ProcessedRows : kernel = "applyDecimalToIntegralCast"}

\* The unscaled value of a DECIMAL row.
Unscaled(r) == inputVector[r].converts.payload

\* v / 10^s, truncated toward zero.
Truncated(v, s) == IF v >= 0 THEN v \div 10^s ELSE -((-v) \div 10^s)

\* v / 10^s, rounded half away from zero.
RoundedHalfAway(v, s) ==
    IF v >= 0 THEN (v + (10^s \div 2)) \div 10^s
    ELSE -(((-v) + (10^s \div 2)) \div 10^s)

InRange(n) == -(2^(Width(toKind) - 1)) <= n /\ n <= 2^(Width(toKind) - 1) - 1

(* C14 as stated: under every policy other than SparkTryCastPolicy the     *)
(* result is v / 10^s rounded half away from zero, and under               *)
(* SparkTryCastPolicy it is v / 10^s truncated toward zero.                *)
C14_AsStated ==
    \A r \in IntegralRows :
       InRange(RoundedHalfAway(Unscaled(r), fromScale))
         => /\ resultVector[r].written
            /\ resultVector[r].value =
                 (IF policy # "SparkTryCastPolicy"
                  THEN RoundedHalfAway(Unscaled(r), fromScale)
                  ELSE Truncated(Unscaled(r), fromScale))

(* C14, amended: when truncate() is false and the policy is not            *)
(* SparkTryCastPolicy the result is v / 10^s rounded half away from zero;  *)
(* when truncate() is true, or under SparkTryCastPolicy, it is v / 10^s    *)
(* truncated toward zero.  100.50 gives 101 under Presto and 100 under     *)
(* SparkTryCast, and -100.50 gives -101 under Presto.                      *)
C14_DecimalToIntegerRounding ==
    \A r \in IntegralRows :
       /\ InRange(RoundedHalfAway(Unscaled(r), fromScale))
            => /\ resultVector[r].written
               /\ resultVector[r].value =
                    (IF ~truncate /\ policy # "SparkTryCastPolicy"
                     THEN RoundedHalfAway(Unscaled(r), fromScale)
                     ELSE Truncated(Unscaled(r), fromScale))
       /\ fromScale = 2 /\ Unscaled(r) = 10050 /\ policy = "PrestoCastPolicy"
            => resultVector[r].value = 101
       /\ fromScale = 2 /\ Unscaled(r) = 10050 /\ policy = "SparkTryCastPolicy"
            => resultVector[r].value = 100
       /\ fromScale = 2 /\ Unscaled(r) = -10050 /\ policy = "PrestoCastPolicy"
            => resultVector[r].value = -101

\* -100.50 has been cast to -101 under Presto, and 100.50 to 100 under
\* SparkTryCast.
C14_Witness ==
    \E r \in IntegralRows :
       /\ fromScale = 2
       /\ ~truncate
       /\ \/ /\ policy = "PrestoCastPolicy"
             /\ Unscaled(r) = -10050
             /\ resultVector[r].value = -101
          \/ /\ policy = "SparkTryCastPolicy"
             /\ Unscaled(r) = 10050
             /\ resultVector[r].value = 100

\* The integral result the kernel computes for a row, before the bounds
\* check.
Computed(r) ==
    IF ~truncate /\ policy # "SparkTryCastPolicy"
    THEN RoundedHalfAway(Unscaled(r), fromScale)
    ELSE Truncated(Unscaled(r), fromScale)

\* The string ends with the suffix.
EndsWith(string, suffix) ==
    /\ Len(string) >= Len(suffix)
    /\ SubSeq(string, Len(string) - Len(suffix) + 1, Len(string)) = suffix

(* C15: whatever the policy and truncate(), a row whose integral result is *)
(* outside the target type's range gets no value: it is null in a          *)
(* try-cast, and otherwise a user error ending in "Out of bounds." is      *)
(* recorded for it; a value wrapped modulo 2^w is never written.           *)
C15_BoundsCheck ==
    \A r \in IntegralRows :
       ~InRange(Computed(r))
         => /\ ~resultVector[r].written
            /\ IF setNullInResultAtError
               THEN resultVector[r].isNull /\ ~contextErrors[r].set
               ELSE /\ RecordsUserError(contextErrors[r])
                    /\ EndsWith(contextErrors[r].payload.message, "Out of bounds.")

(* C16: an integer that does not fit the target DECIMAL leaves its row     *)
(* null in try mode and in strict mode, with no error recorded; a          *)
(* floating-point value that cannot be rescaled leaves its row null in try *)
(* mode, and in strict mode gets a user error whose message is             *)
(* makeErrorMessage(input, row, toType, status message).                   *)
C16_IntVersusFloatOverflow ==
    \A r \in ProcessedRows :
       /\ kernel = "applyIntToDecimalCastKernel"
            /\ inputVector[r].converts.tag = "nullopt"
            => /\ resultVector[r].isNull
               /\ ~resultVector[r].written
               /\ ~contextErrors[r].set
       /\ kernel = "applyFloatingPointToDecimalCastKernel"
            /\ inputVector[r].converts.tag = "error"
            => /\ ~resultVector[r].written
               /\ IF setNullInResultAtError
                  THEN resultVector[r].isNull /\ ~contextErrors[r].set
                  ELSE /\ ~resultVector[r].isNull
                       /\ RecordsUserError(contextErrors[r])
                       /\ contextErrors[r].payload.message =
                            format(makeErrorMessage(
                                     fromKind, inputVector[r].text, toKind,
                                     inputVector[r].converts.payload))

\* A strict integer-to-decimal cast has left the row of an integer that does
\* not fit null, after a row that got its value.
C16_Witness ==
    /\ kernel = "applyIntToDecimalCastKernel"
    /\ ~setNullInResultAtError
    /\ \E q, r \in ProcessedRows :
          /\ q < r
          /\ resultVector[q].written
          /\ inputVector[r].converts.tag = "nullopt"
          /\ resultVector[r].isNull

-----------------------------------------------------------------------------
(* Properties of a try-cast and a strict cast of the same input.           *)

\* The rows the strict cast has processed.
SecondPassRows == IF firstPass = <<>> THEN {} ELSE ReadRows \ selectedRows

\* The row's function returns no value: rescaleInt of an integer that does
\* not fit, or castDoubleToTimestamp.
NullByDesign(v) == v.converts.tag = "nullopt"

-----------------------------------------------------------------------------
(* Properties of the kernel's handling of strings.                         *)

\* The processed rows of a primitive cast of a string.
StringRows ==
    IF kernel = "primitive" /\ fromKind \in StringKinds THEN ProcessedRows ELSE {}

\* The row failed with the given detail, as the mode prescribes.
FailedWith(r, detail) ==
    /\ ~resultVector[r].written
    /\ IF setNullInResultAtError
       THEN resultVector[r].isNull /\ ~contextErrors[r].set
       ELSE /\ RecordsUserError(contextErrors[r])
            /\ captureErrorDetails /\ contextErrors[r].by = "setStatus"
                 => contextErrors[r].payload.message[8] = detail

RefusedAsUnicode(v) ==
    /\ toKind \in IntegerKinds
    /\ throwOnUnicode(policy)
    /\ v.stripped # ""
    /\ ~v.isAscii

(* C18: under a policy with throwOnUnicode a cast of a string to an        *)
(* integer type refuses a row whose stripped string has a non-ASCII byte:  *)
(* the converter is not called and the row fails with "Unicode characters  *)
(* are not supported for conversion to integer types", null in a try-cast  *)
(* and a recorded user error otherwise.  Under a policy without            *)
(* throwOnUnicode, and for a target that is no integer type, a non-ASCII   *)
(* string that is not empty when stripped reaches the converter or hook    *)
(* and the row gets what that returns.                                     *)
C18_UnicodeRule ==
    \A r \in StringRows :
       IF RefusedAsUnicode(inputVector[r])
       THEN /\ ~converterInput[r].called
            /\ FailedWith(r, "Unicode characters are not supported for conversion to integer types")
       ELSE ~inputVector[r].isAscii /\ inputVector[r].stripped # ""
              => /\ converterInput[r].called
                 /\ inputVector[r].converts.tag = "value"
                      => /\ resultVector[r].written
                         /\ ~resultVector[r].isNull
                         /\ ~contextErrors[r].set

\* A strict cast to BIGINT under a policy with throwOnUnicode has recorded
\* the user error of a non-ASCII row, and the message names the check.
C18_Witness ==
    /\ toKind = "BIGINT"
    /\ throwOnUnicode(policy)
    /\ ~setNullInResultAtError
    /\ captureErrorDetails
    /\ \E r \in StringRows :
          /\ ~inputVector[r].isAscii
          /\ ~converterInput[r].called
          /\ contextErrors[r].set
          /\ contextErrors[r].by = "setStatus"
          /\ contextErrors[r].payload.message[8] =
               "Unicode characters are not supported for conversion to integer types"

-----------------------------------------------------------------------------
(* Properties of the messages of the recorded errors.                      *)

\* The string starts with the prefix.
StartsWith(string, prefix) ==
    /\ Len(string) >= Len(prefix)
    /\ SubSeq(string, 1, Len(prefix)) = prefix

\* How many times the part occurs in the string.
RECURSIVE Occurrences(_, _)
Occurrences(string, part) ==
    IF Len(string) < Len(part) THEN 0
    ELSE (IF StartsWith(string, part) THEN 1 ELSE 0)
           + Occurrences(SubSeq(string, 2, Len(string)), part)

\* The message of a recorded error, as a string.
MessageOf(e) ==
    IF e.by = "setStatus" THEN format(e.payload.message) ELSE e.payload.message

\* "Cannot cast <fromType> '<value>' to <toType>. " for a row.
TemplatePrefix(r) ==
    format(makeErrorMessage(fromKind, inputVector[r].text, toKind, ""))

(* C19: the message of every user error recorded for a row starts with     *)
(* "Cannot cast <fromType> '<value>' to <toType>. ", and that prefix occurs *)
(* in it once; when captureErrorDetails() is false the recorded error has  *)
(* no message.                                                             *)
C19_MessageFormat ==
    \A r \in ProcessedRows :
       RecordsUserError(contextErrors[r])
         => IF captureErrorDetails
            THEN /\ StartsWith(MessageOf(contextErrors[r]), TemplatePrefix(r))
                 /\ Occurrences(MessageOf(contextErrors[r]), TemplatePrefix(r)) = 1
            ELSE MessageOf(contextErrors[r]) = ""

-----------------------------------------------------------------------------
(* Properties of the order of the captures.                                *)

\* The names an expression reads that are not declared in 'bound', in the
\* order a depth-first walk with the inputs left to right meets them first,
\* after the names in 'met'.
RECURSIVE FirstEncounters(_, _, _), FirstEncountersOfAll(_, _, _)
FirstEncounters(e, bound, met) ==
    IF e.kind = "FieldAccess" /\ isInputColumn(e)
    THEN IF e.name \in bound \/ InSeq(e.name, met) THEN met ELSE Append(met, e.name)
    ELSE IF e.kind = "Lambda"
         THEN FirstEncounters(e.body[1], bound \cup Range(e.params), met)
         ELSE FirstEncountersOfAll(e.inputs, bound, met)

FirstEncountersOfAll(es, bound, met) ==
    IF es = <<>> THEN met
    ELSE FirstEncountersOfAll(Tail(es), bound, FirstEncounters(Head(es), bound, met))

\* The Scopes of the lambdas whose compilation has returned.
ClosedScopes == {s \in 1..Len(scopes) : scopes[s].closed}

\* The field names of a sequence of compiled references.
FieldsOf(references) == [i \in 1..Len(references) |-> heap[references[i]].name]

(* C20: once a lambda is compiled, the capture list of its Scope is the    *)
(* sequence of the captured names in the order a depth-first, left to      *)
(* right walk of the body meets them first; the Scope's references and     *)
(* field accesses name the same field at every index; the LambdaExpr made  *)
(* for the Scope lists its captures in that order; and two Scopes of the   *)
(* same lambda have the same capture list.                                 *)
C20_CaptureOrder ==
    /\ \A s \in ClosedScopes :
          /\ scopes[s].capture =
               FirstEncounters(scopes[s].lambda[1].body[1],
                               Range(scopes[s].lambda[1].params), <<>>)
          /\ FieldsOf(scopes[s].captureReferences) = scopes[s].capture
          /\ [i \in 1..Len(scopes[s].captureFieldAccesses) |->
                scopes[s].captureFieldAccesses[i].name] = scopes[s].capture
          /\ \A p \in 1..Len(log) :
                /\ log[p].how = "lambda"
                /\ log[p].scope = scopes[s].parent
                /\ log[p].expr = scopes[s].lambda[1]
                => FieldsOf(heap[log[p].ret].captures) = scopes[s].capture
    /\ \A s, t \in ClosedScopes :
          scopes[s].lambda = scopes[t].lambda => scopes[s].capture = scopes[t].capture

\* The same lambda has been compiled in two Scopes, under the top-level Scope
\* and inside another lambda, and both capture x before k; the LambdaExpr of
\* one of them is made.
C20_Witness ==
    \E s, t \in ClosedScopes :
       /\ s # t
       /\ scopes[s].lambda = scopes[t].lambda
       /\ scopes[s].parent = 1
       /\ scopes[t].parent # 1
       /\ scopes[s].capture = <<"x", "k">>
       /\ scopes[t].capture = <<"x", "k">>
       /\ \E p \in 1..Len(log) :
             /\ log[p].how = "lambda"
             /\ log[p].scope = 1
             /\ log[p].expr = scopes[s].lambda[1]
             /\ Len(heap[log[p].ret].captures) = 2

-----------------------------------------------------------------------------
(* Properties of the flattening candidates while the registry changes.     *)

\* The names the registry, as read under the lock, declares as supporting
\* flattening.
LockedFlattening ==
    {name \in DOMAIN lockedMap : lockedMap[name].supportsFlattening}

\* The calls that have been compiled, other than 'and' and 'or'.
BuiltCalls ==
    {p \in 1..Len(log) :
       log[p].expr.kind = "Call" /\ ~IsAndOr(log[p].expr) /\ log[p].how # "hit"}

\* The call has a call of the same name among its inputs, and inputs of
\* mutually equivalent types.
Nested(e) ==
    /\ MutuallyEquivalent(e.inputs)
    /\ EquivalentOperandsOfAll(e.inputs, e.name) # e.inputs

\* The node built for the call has the flattened operands as its inputs.
BuiltFlat(p) ==
    CompiledFormsOf(heap[log[p].built].inputs,
                    EquivalentOperandsOfAll(log[p].expr.inputs, log[p].expr.name),
                    log[p].scope)

(* C21: from the entry of compileExpressions on, the flattening candidates *)
(* are the names called in the sources that the registry declared as       *)
(* supporting flattening when it was read under the lock, before any       *)
(* source was compiled; every call that has been compiled is flattened     *)
(* exactly when its name is a candidate and its inputs are type-equivalent,*)
(* whatever the registry holds by then; and two nested calls of one name   *)
(* are both flattened or both left as they are.                            *)
C21_SingleSnapshot ==
    pc # "idle"
      => /\ flatteningCandidates =
              UNION {collectCallNames(sources[i]) : i \in 1..Len(sources)}
                \cap LockedFlattening
         /\ \A p \in BuiltCalls :
               CompiledFormsOf(
                 heap[log[p].built].inputs,
                 IF log[p].expr.name \in flatteningCandidates
                    /\ MutuallyEquivalent(log[p].expr.inputs)
                 THEN EquivalentOperandsOfAll(log[p].expr.inputs, log[p].expr.name)
                 ELSE log[p].expr.inputs,
                 log[p].scope)
         /\ \A p, q \in BuiltCalls :
               /\ log[p].expr.name = log[q].expr.name
               /\ Nested(log[p].expr)
               /\ Nested(log[q].expr)
               => (BuiltFlat(p) <=> BuiltFlat(q))

\* Two sources with nested calls of concat have both been compiled flat,
\* and the registry no longer declares concat as supporting flattening.
C21_Witness ==
    /\ pc = "returned"
    /\ "concat" \in DOMAIN functionMap
    /\ ~functionMap["concat"].supportsFlattening
    /\ lockedMap["concat"].supportsFlattening
    /\ \E p, q \in BuiltCalls :
          /\ p # q
          /\ log[p].expr.name = "concat"
          /\ log[q].expr.name = "concat"
          /\ log[p].expr # log[q].expr
          /\ Len(heap[log[p].built].inputs) = 3
          /\ Len(heap[log[q].built].inputs) = 3

-----------------------------------------------------------------------------
(* Properties of the promotion of a node to multiply referenced.           *)

\* How many entries of the sequence satisfy: equal to x.
RECURSIVE CountOf(_, _)
CountOf(x, seq) ==
    IF seq = <<>> THEN 0
    ELSE (IF Head(seq) = x THEN 1 ELSE 0) + CountOf(x, Tail(seq))

\* The cache hits that returned the node.
HitsOn(n) == {p \in 1..Len(log) : log[p].how = "hit" /\ log[p].ret = n}

\* The node has been promoted once if a cache hit returned it, and never
\* otherwise.
PromotedOnce ==
    \A n \in 1..Len(heap) :
       /\ heap[n].isMultiplyReferenced <=> HitsOn(n) # {}
       /\ CountOf(n, toReset) = IF HitsOn(n) # {} THEN 1 ELSE 0
       /\ heap[n].metaDataClears = IF HitsOn(n) # {} THEN 1 ELSE 0

(* C22: a node is registered for reset and has its metadata cleared and    *)
(* recomputed once, at the first cache hit that returns it, and not again  *)
(* at a later hit; and a node that is multiply referenced stays so.        *)
C22_PromotedOnce ==
    /\ []PromotedOnce
    /\ [][\A n \in 1..Len(heap) :
            heap[n].isMultiplyReferenced
              => /\ n <= Len(heap')
                 /\ heap'[n].isMultiplyReferenced
                 /\ heap'[n].metaDataClears = heap[n].metaDataClears]_vars

\* Two cache hits have returned the same node.
C22_Witness ==
    \E n \in 1..Len(heap) :
       /\ Cardinality(HitsOn(n)) >= 2
       /\ heap[n].isMultiplyReferenced
       /\ CountOf(n, toReset) = 1

-----------------------------------------------------------------------------
(* Properties of the captures of a LambdaExpr.                             *)

\* The lambdas that have been compiled, by their entry in the log.
LambdaEntries == {p \in 1..Len(log) : log[p].how = "lambda"}

\* The Scope opened for the lambda of the entry.
ScopeOf(p) ==
    CHOOSE s \in ClosedScopes :
       scopes[s].parent = log[p].scope /\ scopes[s].lambda[1] = log[p].expr

\* Capture i of the lambda of entry p, with s its Scope, is the node the
\* enclosing Scope holds for the field access.
CaptureMaterialized(p, s, i, fieldAccess, reference) ==
    /\ fieldAccess \in DOMAIN scopes[log[p].scope].visited
    /\ scopes[log[p].scope].visited[fieldAccess] = reference
    /\ heap[reference].kind = "FieldReference"
    /\ heap[reference].name = fieldAccess.name
    /\ heap[reference].type = fieldAccess.type
    /\ heap[reference].inputs = <<>>
    /\ reference # scopes[s].captureReferences[i]
    /\ \A q \in 1..Len(log) :
          log[q].scope = log[p].scope /\ log[q].expr = fieldAccess
            => /\ log[q].ret = reference
               /\ q > p => log[q].how = "hit"

(* C23: every capture of a compiled LambdaExpr is the FieldReference the   *)
(* enclosing Scope's visited map holds for the captured field access, of   *)
(* the field's name and type and with no inputs: the node the enclosing    *)
(* Scope had compiled for the field access before, if any, and the node    *)
(* every later compilation of the field access in that Scope returns.      *)
C23_CaptureMaterialization ==
    \A p \in LambdaEntries :
       /\ Len(heap[log[p].ret].captures) = Len(scopes[ScopeOf(p)].capture)
       /\ \A i \in 1..Len(heap[log[p].ret].captures) :
             CaptureMaterialized(p, ScopeOf(p), i,
                                 scopes[ScopeOf(p)].captureFieldAccesses[i],
                                 heap[log[p].ret].captures[i])

\* A lambda has captured a column that its enclosing Scope had not
\* compiled, and a later compilation of the column in that Scope has returned
\* the lambda's capture.
C23_Witness ==
    \E r \in LambdaEntries :
       \E q \in 1..Len(log) :
          /\ q > r
          /\ log[q].scope = log[r].scope
          /\ log[q].how = "hit"
          /\ log[q].ret \in Range(heap[log[r].ret].captures)
          /\ \A o \in 1..(r - 1) : log[o].ret # log[q].ret

-----------------------------------------------------------------------------
(* Properties of the placement of InputRef.                                *)

\* The expression holds a node that is no FieldAccess and has an InputRef
\* among its inputs.
RECURSIVE Misplaced(_)
Misplaced(e) ==
    \/ /\ e.kind # "FieldAccess"
       /\ \E i \in 1..Len(e.inputs) : e.inputs[i].kind = "Input"
    \/ \E i \in 1..Len(e.inputs) : Misplaced(e.inputs[i])
    \/ e.kind = "Lambda" /\ Misplaced(e.body[1])

(* C24: a source that holds a node with an InputRef among its inputs that  *)
(* is no FieldAccess does not compile: the call fails with the check "An   *)
(* InputReference can only occur under a FieldReference" and no node is    *)
(* returned for it; the FieldReference of a FieldAccess over an InputRef   *)
(* has no compiled input; and a source that is an InputRef fails as        *)
(* unsupported.                                                            *)
C24_InputRefPlacement ==
    /\ \A i \in 1..Len(exprs) : ~Misplaced(sources[i]) /\ sources[i].kind # "Input"
    /\ pc = "thrown" /\ Misplaced(sources[nextSource])
         => /\ err.kind = "runtime"
            /\ err.what = "An InputReference can only occur under a FieldReference"
    /\ pc = "thrown" /\ sources[nextSource].kind = "Input"
         => /\ err.kind = "user"
            /\ err.what = "InputTypedExpr is not supported"
    /\ \A p \in 1..Len(log) :
          /\ log[p].expr.kind = "FieldAccess"
          /\ log[p].how # "hit"
          /\ \E i \in 1..Len(log[p].expr.inputs) : log[p].expr.inputs[i].kind = "Input"
          => /\ heap[log[p].built].kind = "FieldReference"
             /\ heap[log[p].built].inputs = <<>>

-----------------------------------------------------------------------------
(* Properties of constant folding and the ExprSet's evaluation state.      *)

\* The nodes that have been built, by their entry in the log.
BuiltEntries == {p \in 1..Len(log) : log[p].how # "hit"}

\* The entries whose node went through tryFoldIfConstant.
FoldAttempts == {p \in BuiltEntries : log[p].fold # "none"}

(* C25: a node that has been built went through constant folding exactly   *)
(* when folding is enabled and the node is no ConstantExpr; the ExprSet    *)
(* has been cleared once for every such attempt that returned, whether it  *)
(* made a constant, gave up on a user error or found no constant           *)
(* expression, and never otherwise; and only an attempt that made a        *)
(* constant returns another node than the one built.                       *)
C25_FoldingClears ==
    /\ \A p \in BuiltEntries :
          /\ p \in FoldAttempts
               <=> enableConstantFolding /\ heap[log[p].built].kind # "ConstantExpr"
          /\ log[p].fold \in {"none", "folded", "userError", "notConstant"}
          /\ IF log[p].fold = "folded"
             THEN heap[log[p].ret].kind = "ConstantExpr" /\ log[p].ret # log[p].built
             ELSE log[p].ret = log[p].built
    /\ clears = Cardinality(FoldAttempts)
    /\ ~enableConstantFolding => clears = 0

\* One call has folded a node, given up folding another on a user error and
\* found a third to be no constant expression, and has cleared the ExprSet
\* each time.
C25_Witness ==
    /\ \E p, q, r \in FoldAttempts :
          /\ log[p].fold = "folded"
          /\ log[q].fold = "userError"
          /\ log[r].fold = "notConstant"
    /\ \E p \in BuiltEntries : log[p].fold = "none"
    /\ clears >= 3

-----------------------------------------------------------------------------
(* The string buffer of applyDecimalToVarcharCast.                         *)

ViewOf(r) == stringBuffer.views[r]

\* The rows whose text is too long for an inline StringView.
NonInlineRows ==
    {r \in 1..MaxRows : ViewOf(r).written /\ ~isInline(ViewOf(r).size)}

\* The bytes of the non-inline texts of rows 1..n.
RECURSIVE NonInlineBytes(_)
NonInlineBytes(n) ==
    IF n = 0 THEN 0
    ELSE (IF n \in NonInlineRows THEN ViewOf(n).size ELSE 0) + NonInlineBytes(n - 1)

\* The call uses the string buffer.
UsesBuffer ==
    /\ stringBuffer.reserved
         = Cardinality(ReadRows \cup selectedRows) * stringBuffer.rowSize
    /\ \A r \in ReadRows :
          /\ ViewOf(r).written
          /\ ViewOf(r).size = Len(resultVector[r].value)
          /\ ViewOf(r).at = stringBuffer.start + NonInlineBytes(r - 1)
          /\ ViewOf(r).at + ViewOf(r).size
               <= stringBuffer.start + stringBuffer.reserved
    /\ \A r, q \in NonInlineRows :
          r < q => ViewOf(r).at + ViewOf(r).size <= ViewOf(q).at
    /\ stringBuffer.rawBuffer <= stringBuffer.start + stringBuffer.reserved
    /\ castPc = "returned"
         => stringBuffer.size = stringBuffer.start + NonInlineBytes(MaxRows)

\* The call leaves the string buffer alone.
LeavesBuffer ==
    /\ stringBuffer.reserved = 0
    /\ \A r \in 1..MaxRows : ~ViewOf(r).written
    /\ stringBuffer.rawBuffer = stringBuffer.start
    /\ stringBuffer.size = stringBuffer.start

\* C26: when maxStringViewSize(precision, scale) is not inline, the kernel
\* reserves countSelected * maxStringViewSize bytes, each row's text is at
\* the write offset, which moves by the text's size only if the text is not
\* inline: the non-inline texts are disjoint, the offset stays within the
\* reserved space and the buffer grows by the bytes of the non-inline texts.
\* When maxStringViewSize is inline, no space of the buffer is used.
C26_StringBuffer ==
    (kernel = "applyDecimalToVarcharCast" /\ firstPass = <<>>)
      => IF isInline(maxStringViewSize(precisionOf(fromKind), fromScale))
         THEN LeavesBuffer
         ELSE UsesBuffer

\* A call that returned and wrote an inline text and then a longer one, into
\* a buffer that held bytes.
C26_Witness ==
    /\ kernel = "applyDecimalToVarcharCast"
    /\ castPc = "returned"
    /\ ~isInline(maxStringViewSize(precisionOf(fromKind), fromScale))
    /\ stringBuffer.start = 16
    /\ ReadRows = {1, 2}
    /\ isInline(ViewOf(1).size)
    /\ NonInlineRows = {2}
    /\ resultVector[2].value = "-0.0000010050"

-----------------------------------------------------------------------------
(* The result of a call and of the calls before it.                        *)

\* The nodes a node points at: its inputs, its captures and its body.
Refs(n) ==
    Range(heap[n].inputs) \cup Range(heap[n].captures)
      \cup (IF heap[n].body = 0 THEN {} ELSE {heap[n].body})

\* The nodes that can be reached from the nodes of a set.
RECURSIVE NodesFrom(_)
NodesUpTo(nodes, more) == IF more = nodes THEN nodes ELSE NodesFrom(more)
NodesFrom(nodes) == NodesUpTo(nodes, nodes \cup UNION {Refs(n) : n \in nodes})

\* The nodes of the results of the calls before this one.
EarlierNodes == NodesFrom(UNION {Range(earlier[c]) : c \in 1..Len(earlier)})

\* C27 as stated: equal expressions of different sources of a call have one
\* node, which is flagged.
C27_AsStated ==
    \A p, q \in 1..Len(log) :
       (p < q /\ log[p].source # log[q].source /\ log[p].expr = log[q].expr)
         => log[q].ret = log[p].ret /\ heap[log[p].ret].isMultiplyReferenced

\* C27: a call returns one node per source, in the order of the sources;
\* all its sources are compiled in one top-level Scope, so that equal
\* expressions compiled in that Scope, in one source or in two, have one node,
\* which is flagged; and a call shares no node with the calls before it.
C27_OneScopePerCall ==
    /\ Len(exprs) = nextSource - 1
    /\ pc = "returned" => Len(exprs) = Len(sources)
    /\ \A i \in 1..Len(exprs) : exprs[i] = CompiledIn(1, sources[i])
    /\ \A s \in 2..Len(scopes) : scopes[s].parent # 0
    /\ \A p, q \in 1..Len(log) :
          (p < q /\ log[p].scope = 1 /\ log[q].scope = 1 /\ log[p].expr = log[q].expr)
            => log[q].ret = log[p].ret /\ heap[log[p].ret].isMultiplyReferenced
    /\ EarlierNodes \cap NodesFrom(Range(exprs)) = {}
    /\ \A s \in 1..Len(scopes) : EarlierNodes \cap Range(scopes[s].visited) = {}

\* A second call has returned two sources that share a node, for a column
\* the call before has a node of its own for.
C27_Witness ==
    /\ pc = "returned"
    /\ Len(earlier) = 1
    /\ Len(exprs) = 2
    /\ sources[1] # sources[2]
    /\ exprs[1] # exprs[2]
    /\ \E p, q \in 1..Len(log) :
          /\ log[p].source = 1 /\ log[q].source = 2
          /\ log[p].scope = 1 /\ log[q].scope = 1
          /\ log[p].expr = log[q].expr
    /\ \E n \in NodesFrom({exprs[1]}) \cap NodesFrom({exprs[2]}) :
          /\ heap[n].kind = "FieldReference"
          /\ heap[n].isMultiplyReferenced
          /\ \E m \in EarlierNodes :
                heap[m].kind = "FieldReference" /\ heap[m].name = heap[n].name

-----------------------------------------------------------------------------
(* The referrers of a node in the graph the call has returned so far.      *)

OutputNodes == NodesFrom(Range(exprs))

\* The uses of node n: as an input, as a capture, as a body, and as a
\* returned expression.
InputUses(n) ==
    {u \in UNION {{<<m, i>> : i \in DOMAIN heap[m].inputs} : m \in OutputNodes} :
       heap[u[1]].inputs[u[2]] = n}
CaptureUses(n) ==
    {u \in UNION {{<<m, i>> : i \in DOMAIN heap[m].captures} : m \in OutputNodes} :
       heap[u[1]].captures[u[2]] = n}
BodyUses(n) == {m \in OutputNodes : heap[m].body = n}
TopLevelUses(n) == {i \in DOMAIN exprs : exprs[i] = n}

Referrers(n) ==
    Cardinality(InputUses(n)) + Cardinality(CaptureUses(n))
      + Cardinality(BodyUses(n)) + Cardinality(TopLevelUses(n))

\* C28: every node of the output graph that has two or more referrers is
\* flagged as multiply referenced and is in the ExprSet's reset list, a
\* FieldReference that a lambda takes as its capture from the visited map of
\* the enclosing Scope included.
C28_SharedNodesMarked ==
    \A n \in OutputNodes :
       Referrers(n) >= 2
         => heap[n].isMultiplyReferenced /\ n \in Range(toReset)

-----------------------------------------------------------------------------
(* The outcome of each row of a kernel's pass.                             *)

\* What the pass has left for a row: a written value, a null, a recorded
\* error.
OutcomesOf(r) ==
    (IF resultVector[r].written THEN {"value"} ELSE {})
      \cup (IF resultVector[r].isNull THEN {"null"} ELSE {})
      \cup (IF contextErrors[r].set THEN {"error"} ELSE {})

\* C29: when a kernel's pass over a selection has returned, each selected
\* row has exactly one of a written value, a null and a recorded error, and
\* the value, the null flag and the error of every other row are as they
\* were.
C29_OneOutcomePerRow ==
    castPc = "returned"
      => /\ \A r \in ProcessedRows : Cardinality(OutcomesOf(r)) = 1
         /\ \A r \in (1..MaxRows) \ ProcessedRows :
               resultVector[r] = Unset /\ contextErrors[r] = NoError

\* A strict decimal-to-integral cast has returned from a selection of the
\* first row alone, with an error recorded for it and no value written.
C29_Witness ==
    /\ castPc = "returned"
    /\ kernel = "applyDecimalToIntegralCast"
    /\ ~setNullInResultAtError
    /\ ProcessedRows = {1}
    /\ OutcomesOf(1) = {"error"}
    /\ resultVector[2] = Unset

-----------------------------------------------------------------------------
(* The type of a function node and the return type the registry declares. *)

\* The return type of the vector function that resolves.
VectorReturnType(name, types) == getVectorFunctionWithMetadata(name, types).ret

\* The log entries of the nodes compileCall built from a function.
FunctionEntries(how) == {p \in 1..Len(log) : log[p].how = how}

\* The types of the inputs of the node an entry built.
InputTypesOf(p) == getTypes(heap[log[p].built].inputs, heap)

\* C30 as stated: a node built from a vector function or from a simple
\* function has a type equivalent to the return type the registry declares
\* for that function.
C30_AsStated ==
    /\ \A p \in FunctionEntries("vector") :
          equivalent(heap[log[p].built].type,
                     VectorReturnType(log[p].expr.name, InputTypesOf(p)))
    /\ \A p \in FunctionEntries("simple") :
          equivalent(heap[log[p].built].type,
                     SimpleReturnType(log[p].expr.name, InputTypesOf(p)))

\* C30, amended: a node built from a simple function has a type equivalent
\* to the return type the registry declares, and a call whose declared type
\* differs from it fails to compile; a node built from a vector function has
\* the type the call declares, whatever the registry declares.
C30_DeclaredType ==
    /\ \A p \in FunctionEntries("simple") :
          /\ heap[log[p].built].type = log[p].expr.type
          /\ equivalent(heap[log[p].built].type,
                        SimpleReturnType(log[p].expr.name, InputTypesOf(p)))
    /\ \A p \in FunctionEntries("vector") :
          heap[log[p].built].type = log[p].expr.type
    /\ \A i \in 1..Len(sources) :
          (/\ sources[i].kind = "Call"
           /\ resolveCall(sources[i].name, getTypes(err.inputs, heap)) = "simple"
           /\ pc = "thrown" /\ nextSource = i /\ err.expr = sources[i]
           /\ ~equivalent(sources[i].type,
                          SimpleReturnType(sources[i].name, getTypes(err.inputs, heap))))
            => err.what = IncompatibleReturnTypes

\* A call declared BOOLEAN of a vector function that returns BIGINT has been
\* compiled and returned.
C30_Witness ==
    /\ pc = "returned"
    /\ \E p \in FunctionEntries("vector") :
          /\ log[p].expr.type = "BOOLEAN"
          /\ VectorReturnType(log[p].expr.name, InputTypesOf(p)) = "BIGINT"
          /\ log[p].ret \in Range(exprs)

====
